---- MODULE Spec2Model ----
(***************************************************************************)
(* A model of the yuzu keyring (core/crypto/key_manager.cpp) and of the    *)
(* XCI application loader (core/loader/xci.cpp).                           *)
(*                                                                         *)
(* Text (key-file contents, key names, hex strings) is held as strings,    *)
(* character by character.  Byte arrays (Key128, Key256, file blobs) are   *)
(* sequences of numbers 0..255.  A u64 is held as its 8-byte object        *)
(* representation, which is what std::memcpy copies.                       *)
(***************************************************************************)
EXTENDS Integers, Sequences, FiniteSets, TLC

----------------------------------------------------------------------------
\* Sizes fixed by the program.

\* sizeof(Key128): Common::HexStringToArray<16>
Size128 == 16
\* sizeof(Key256): Common::HexStringToArray<32>
Size256 == 32
\* sizeof(u64)
SizeU64 == 8

----------------------------------------------------------------------------
\* Characters and strings.

Char(s, i) == SubSeq(s, i, i)

\* First position of character c in s, 0 when c does not occur.
IndexOf(s, c) ==
    IF \E i \in 1..Len(s) : Char(s, i) = c
    THEN CHOOSE i \in 1..Len(s) : Char(s, i) = c /\ \A j \in 1..(i - 1) : Char(s, j) # c
    ELSE 0

\* The text is searched sixteen characters at a time.
ChunkEnd(s, start) == IF start + 15 < Len(s) THEN start + 15 ELSE Len(s)

DelimsIn(s, delim, lo, hi) == {i \in lo..hi : Char(s, i) = delim}

Least(positions) == CHOOSE i \in positions : \A j \in positions : i <= j

\* Position of the first delim at or after start, 0 when there is none.
RECURSIVE NextDelim(_, _, _)
NextDelim(s, delim, start) ==
    IF start > Len(s) THEN 0
    ELSE IF DelimsIn(s, delim, start, ChunkEnd(s, start)) = {}
    THEN NextDelim(s, delim, ChunkEnd(s, start) + 1)
    ELSE Least(DelimsIn(s, delim, start, ChunkEnd(s, start)))

\* std::getline(stream, item, delim) repeated until it fails: the pieces of s
\* between delimiters; a piece is produced at end of input only when at least
\* one character was extracted for it.
RECURSIVE SplitFrom(_, _, _)
RECURSIVE SplitAt(_, _, _, _)
SplitFrom(s, delim, start) ==
    IF start > Len(s) THEN <<>>
    ELSE SplitAt(s, delim, start, NextDelim(s, delim, start))

\* The piece from start to the delimiter at next, and the pieces after it.
SplitAt(s, delim, start, next) ==
    IF next = 0 THEN <<SubSeq(s, start, Len(s))>>
    ELSE <<SubSeq(s, start, next - 1)>> \o SplitFrom(s, delim, next + 1)

GetLineAll(s, delim) == SplitFrom(s, delim, 1)

\* The characters lo..hi of s that are not c, in order.
RECURSIVE RemoveRange(_, _, _, _)
RemoveRange(s, c, lo, hi) ==
    IF lo > hi THEN ""
    ELSE IF lo = hi THEN (IF Char(s, lo) = c THEN "" ELSE Char(s, lo))
    ELSE RemoveRange(s, c, lo, (lo + hi) \div 2)
         \o RemoveRange(s, c, ((lo + hi) \div 2) + 1, hi)

\* s.erase(std::remove(s.begin(), s.end(), ' '), s.end())
RemoveSpaces(s) == RemoveRange(s, " ", 1, Len(s))

UpperLetters == "ABCDEFGHIJKLMNOPQRSTUVWXYZ"
LowerLetters == "abcdefghijklmnopqrstuvwxyz"

\* ::tolower, as a table over the upper-case letters
LowerOf == [c \in {Char(UpperLetters, i) : i \in 1..Len(UpperLetters)} |->
                Char(LowerLetters, IndexOf(UpperLetters, c))]

\* ::tolower on one character
ToLowerChar(c) == IF c \in DOMAIN LowerOf THEN LowerOf[c] ELSE c

RECURSIVE ToLowerRange(_, _, _)
ToLowerRange(s, lo, hi) ==
    IF lo > hi THEN ""
    ELSE IF lo = hi THEN ToLowerChar(Char(s, lo))
    ELSE ToLowerRange(s, lo, (lo + hi) \div 2) \o ToLowerRange(s, ((lo + hi) \div 2) + 1, hi)

\* std::transform(s.begin(), s.end(), s.begin(), ::tolower)
ToLower(s) == ToLowerRange(s, 1, Len(s))

----------------------------------------------------------------------------
\* Hex conversion (common/hex_util.h).

HexDigitsUpper == "0123456789ABCDEF"
HexDigitsLower == "0123456789abcdef"

\* The value of each hex digit, upper or lower case
NibbleOf ==
    [c \in {Char(HexDigitsUpper, i) : i \in 1..16} \cup {Char(HexDigitsLower, i) : i \in 1..16} |->
        IF IndexOf(HexDigitsUpper, c) # 0 THEN IndexOf(HexDigitsUpper, c) - 1
        ELSE IndexOf(HexDigitsLower, c) - 1]

\* The value of a hex digit, -1 for any other character.
ToHexNibble(c) == IF c \in DOMAIN NibbleOf THEN NibbleOf[c] ELSE -1

\* Two upper-case hex digits per byte, first byte first.
RECURSIVE HexFrom(_, _)
HexFrom(array, i) ==
    IF i > Len(array) THEN ""
    ELSE Char(HexDigitsUpper, (array[i] \div 16) + 1)
         \o Char(HexDigitsUpper, (array[i] % 16) + 1)
         \o HexFrom(array, i + 1)

HexArrayToString(array) == HexFrom(array, 1)

IsHexOfSize(size, str) ==
    /\ Len(str) = 2 * size
    /\ \A i \in 1..Len(str) : ToHexNibble(Char(str, i)) # -1

\* The array an ill-formed hex string decodes to is not fixed by anything
\* LoadFromFile can see: it is `junk`, chosen by the caller from JunkFill.
JunkArray(size, junk) == [i \in 1..size |-> junk]

HexStringToArray(size, str, junk) ==
    IF IsHexOfSize(size, str)
    THEN [i \in 1..size |->
            16 * ToHexNibble(Char(str, 2 * i - 1)) + ToHexNibble(Char(str, 2 * i))]
    ELSE JunkArray(size, junk)

----------------------------------------------------------------------------
\* Key indices and the name tables.

\* A u64 below 256 as its 8 bytes (low byte first).
U64(n) == [i \in 1..SizeU64 |-> IF i = 1 THEN n ELSE 0]

\* KeyIndex<KeyType>{type, field1, field2}
KeyIndex(type, field1, field2) == [type |-> type, field1 |-> field1, field2 |-> field2]

\* The enumerators cast to u64 in the name tables; distinct within each enum.
SourceKeyType_SDKEK == U64(0)
SourceKeyType_AESKEKGeneration == U64(1)
SourceKeyType_AESKeyGeneration == U64(2)
KeyAreaKeyType_Application == U64(0)
KeyAreaKeyType_Ocean == U64(1)
KeyAreaKeyType_System == U64(2)
SDKeyType_Save == U64(0)
SDKeyType_NCA == U64(1)

s128_file_id ==
    <<
    [name |-> "master_key_00", index |-> KeyIndex("Master", U64(0), U64(0))],
    [name |-> "master_key_01", index |-> KeyIndex("Master", U64(1), U64(0))],
    [name |-> "master_key_02", index |-> KeyIndex("Master", U64(2), U64(0))],
    [name |-> "master_key_03", index |-> KeyIndex("Master", U64(3), U64(0))],
    [name |-> "master_key_04", index |-> KeyIndex("Master", U64(4), U64(0))],
    [name |-> "package1_key_00", index |-> KeyIndex("Package1", U64(0), U64(0))],
    [name |-> "package1_key_01", index |-> KeyIndex("Package1", U64(1), U64(0))],
    [name |-> "package1_key_02", index |-> KeyIndex("Package1", U64(2), U64(0))],
    [name |-> "package1_key_03", index |-> KeyIndex("Package1", U64(3), U64(0))],
    [name |-> "package1_key_04", index |-> KeyIndex("Package1", U64(4), U64(0))],
    [name |-> "package2_key_00", index |-> KeyIndex("Package2", U64(0), U64(0))],
    [name |-> "package2_key_01", index |-> KeyIndex("Package2", U64(1), U64(0))],
    [name |-> "package2_key_02", index |-> KeyIndex("Package2", U64(2), U64(0))],
    [name |-> "package2_key_03", index |-> KeyIndex("Package2", U64(3), U64(0))],
    [name |-> "package2_key_04", index |-> KeyIndex("Package2", U64(4), U64(0))],
    [name |-> "titlekek_00", index |-> KeyIndex("Titlekek", U64(0), U64(0))],
    [name |-> "titlekek_01", index |-> KeyIndex("Titlekek", U64(1), U64(0))],
    [name |-> "titlekek_02", index |-> KeyIndex("Titlekek", U64(2), U64(0))],
    [name |-> "titlekek_03", index |-> KeyIndex("Titlekek", U64(3), U64(0))],
    [name |-> "titlekek_04", index |-> KeyIndex("Titlekek", U64(4), U64(0))],
    [name |-> "eticket_rsa_kek", index |-> KeyIndex("ETicketRSAKek", U64(0), U64(0))],
    [name |-> "key_area_key_application_00", index |-> KeyIndex("KeyArea", U64(0), KeyAreaKeyType_Application)],
    [name |-> "key_area_key_application_01", index |-> KeyIndex("KeyArea", U64(1), KeyAreaKeyType_Application)],
    [name |-> "key_area_key_application_02", index |-> KeyIndex("KeyArea", U64(2), KeyAreaKeyType_Application)],
    [name |-> "key_area_key_application_03", index |-> KeyIndex("KeyArea", U64(3), KeyAreaKeyType_Application)],
    [name |-> "key_area_key_application_04", index |-> KeyIndex("KeyArea", U64(4), KeyAreaKeyType_Application)],
    [name |-> "key_area_key_ocean_00", index |-> KeyIndex("KeyArea", U64(0), KeyAreaKeyType_Ocean)],
    [name |-> "key_area_key_ocean_01", index |-> KeyIndex("KeyArea", U64(1), KeyAreaKeyType_Ocean)],
    [name |-> "key_area_key_ocean_02", index |-> KeyIndex("KeyArea", U64(2), KeyAreaKeyType_Ocean)],
    [name |-> "key_area_key_ocean_03", index |-> KeyIndex("KeyArea", U64(3), KeyAreaKeyType_Ocean)],
    [name |-> "key_area_key_ocean_04", index |-> KeyIndex("KeyArea", U64(4), KeyAreaKeyType_Ocean)],
    [name |-> "key_area_key_system_00", index |-> KeyIndex("KeyArea", U64(0), KeyAreaKeyType_System)],
    [name |-> "key_area_key_system_01", index |-> KeyIndex("KeyArea", U64(1), KeyAreaKeyType_System)],
    [name |-> "key_area_key_system_02", index |-> KeyIndex("KeyArea", U64(2), KeyAreaKeyType_System)],
    [name |-> "key_area_key_system_03", index |-> KeyIndex("KeyArea", U64(3), KeyAreaKeyType_System)],
    [name |-> "key_area_key_system_04", index |-> KeyIndex("KeyArea", U64(4), KeyAreaKeyType_System)],
    [name |-> "sd_card_kek_source", index |-> KeyIndex("Source", SourceKeyType_SDKEK, U64(0))],
    [name |-> "aes_kek_generation_source", index |-> KeyIndex("Source", SourceKeyType_AESKEKGeneration, U64(0))],
    [name |-> "aes_key_generation_source", index |-> KeyIndex("Source", SourceKeyType_AESKeyGeneration, U64(0))],
    [name |-> "sd_seed", index |-> KeyIndex("SDSeed", U64(0), U64(0))]
    >>

s256_file_id ==
    <<
    [name |-> "header_key", index |-> KeyIndex("Header", U64(0), U64(0))],
    [name |-> "sd_card_save_key_source", index |-> KeyIndex("SDKeySource", SDKeyType_Save, U64(0))],
    [name |-> "sd_card_nca_key_source", index |-> KeyIndex("SDKeySource", SDKeyType_NCA, U64(0))]
    >>

\* flat_map::find(name) != end()
TableHas(table, name) == \E i \in 1..Len(table) : table[i].name = name

\* flat_map::at(name)
TableAt(table, name) == table[CHOOSE i \in 1..Len(table) : table[i].name = name].index

\* std::find_if over the table for the entry whose index equals (id, field1, field2)
TableHasIndex(table, index) == \E i \in 1..Len(table) : table[i].index = index

\* TableNameOf comparing only type and field1 of the index: a variant of the
\* code, used to show that C8's formula depends on the reverse lookup.
TableNameOfLoose(table, index) ==
    table[CHOOSE i \in 1..Len(table) :
            /\ table[i].index.type = index.type
            /\ table[i].index.field1 = index.field1
            /\ \A j \in 1..(i - 1) :
                    ~(table[j].index.type = index.type /\ table[j].index.field1 = index.field1)].name

TableNameOf(table, index) ==
    table[CHOOSE i \in 1..Len(table) :
            table[i].index = index /\ \A j \in 1..(i - 1) : table[j].index # index].name

----------------------------------------------------------------------------
\* The key store: s128_keys and s256_keys map a KeyIndex to a key.

Zero128 == [i \in 1..Size128 |-> 0]
Zero256 == [i \in 1..Size256 |-> 0]

\* A store with no entry.
NoKeys == [index \in {} |-> Zero128]

\* An insertion that leaves an occupied slot as it is (insert() for
\* operator[]): a variant of the code, used to show that C16's formula
\* depends on the assignment overwriting.
PutIfAbsent(map, index, key) ==
    [i \in (DOMAIN map) \cup {index} |-> IF i \in DOMAIN map THEN map[i] ELSE key]

\* map[index] = key
Put(map, index, key) ==
    [x \in (DOMAIN map) \cup {index} |-> IF x = index THEN key ELSE map[x]]

\* HasKey comparing only the type of the index: a variant of the code, used to
\* show that C5's formula depends on the membership test.
HasKey128TypeOnly(s128, id, field1, field2) == \E index \in DOMAIN s128 : index.type = id

\* field1 and field2 default to 0 in the declarations.
HasKey128(s128, id, field1, field2) == KeyIndex(id, field1, field2) \in DOMAIN s128

HasKey256(s256, id, field1, field2) == KeyIndex(id, field1, field2) \in DOMAIN s256

\* GetKey handing back an unset array for an absent index: a variant of the
\* code, used to show that C6's formula depends on the zero value.
GetKey128Unset(s128, id, field1, field2) ==
    IF ~HasKey128(s128, id, field1, field2) THEN [i \in 1..Size128 |-> 205]
    ELSE s128[KeyIndex(id, field1, field2)]

GetKey128(s128, id, field1, field2) ==
    IF ~HasKey128(s128, id, field1, field2) THEN Zero128
    ELSE s128[KeyIndex(id, field1, field2)]

GetKey256(s256, id, field1, field2) ==
    IF ~HasKey256(s256, id, field1, field2) THEN Zero256
    ELSE s256[KeyIndex(id, field1, field2)]

----------------------------------------------------------------------------
\* The file system: a path maps to [exists, data]; data is "" when absent.

DIR_SEP == "/"
\* FileUtil::GetUserPath(FileUtil::UserPath::KeysDir)
yuzu_keys_dir == "keys"
\* FileUtil::GetHactoolConfigurationPath()
hactool_keys_dir == "hactool"

NoFile == [exists |-> FALSE, data |-> ""]
File(data) == [exists |-> TRUE, data |-> data]

Exists(files, path) == files[path].exists

----------------------------------------------------------------------------
\* Key files.  A keyring value km is [s128, s256].

LoadLine(km, line, is_title_keys, junk) ==
    LET out == GetLineAll(line, "=") IN
    IF Len(out) # 2 THEN km
    ELSE
        LET out0 == RemoveSpaces(out[1])
            out1 == RemoveSpaces(out[2])
        IN  IF is_title_keys
            THEN
                LET rights_id_raw == HexStringToArray(Size128, out0, junk)
                    rights_id0 == SubSeq(rights_id_raw, 1, SizeU64)
                    rights_id1 == SubSeq(rights_id_raw, SizeU64 + 1, 2 * SizeU64)
                    key == HexStringToArray(Size128, out1, junk)
                IN  [km EXCEPT !.s128 =
                        Put(@, KeyIndex("Titlekey", rights_id1, rights_id0), key)]
            ELSE
                LET name == ToLower(out0) IN
                IF TableHas(s128_file_id, name)
                THEN [km EXCEPT !.s128 =
                        Put(@, TableAt(s128_file_id, name),
                            HexStringToArray(Size128, out1, junk))]
                ELSE IF TableHas(s256_file_id, name)
                THEN [km EXCEPT !.s256 =
                        Put(@, TableAt(s256_file_id, name),
                            HexStringToArray(Size256, out1, junk))]
                ELSE km

RECURSIVE LoadLines(_, _, _, _, _)
LoadLines(km, lines, i, is_title_keys, junk) ==
    IF i > Len(lines) THEN km
    ELSE LoadLines(LoadLine(km, lines[i], is_title_keys, junk), lines, i + 1,
                   is_title_keys, junk)

LoadFromFile(km, files, filename, is_title_keys, junk) ==
    IF ~files[filename].exists THEN km
    ELSE LoadLines(km, GetLineAll(files[filename].data, "\n"), 1, is_title_keys, junk)

\* AttemptLoadKeyFile with `if` where the code has `else if`: a variant of the
\* code, used to show that C13's formula depends on the fallback copy being
\* read only when the primary copy is absent.
AttemptLoadKeyFileBoth(km, files, dir1, dir2, filename, title, junk) ==
    LET k1 == IF Exists(files, dir1 \o DIR_SEP \o filename)
              THEN LoadFromFile(km, files, dir1 \o DIR_SEP \o filename, title, junk)
              ELSE km
    IN  IF Exists(files, dir2 \o DIR_SEP \o filename)
        THEN LoadFromFile(k1, files, dir2 \o DIR_SEP \o filename, title, junk)
        ELSE k1

AttemptLoadKeyFile(km, files, dir1, dir2, filename, title, junk) ==
    IF Exists(files, dir1 \o DIR_SEP \o filename)
    THEN LoadFromFile(km, files, dir1 \o DIR_SEP \o filename, title, junk)
    ELSE IF Exists(files, dir2 \o DIR_SEP \o filename)
    THEN LoadFromFile(km, files, dir2 \o DIR_SEP \o filename, title, junk)
    ELSE km

\* The constructor: the key store of a new keyring, [dev_mode, s128, s256].
KeyManager(files, use_dev, junk) ==
    LET base == IF use_dev THEN "dev.keys" ELSE "prod.keys"
        auto == IF use_dev THEN "dev.keys_autogenerated" ELSE "prod.keys_autogenerated"
        k0 == [s128 |-> NoKeys, s256 |-> NoKeys]
        k1 == AttemptLoadKeyFile(k0, files, yuzu_keys_dir, hactool_keys_dir, base, FALSE, junk)
        k2 == AttemptLoadKeyFile(k1, files, yuzu_keys_dir, yuzu_keys_dir, auto, FALSE, junk)
        k3 == AttemptLoadKeyFile(k2, files, yuzu_keys_dir, hactool_keys_dir, "title.keys",
                                 TRUE, junk)
        k4 == AttemptLoadKeyFile(k3, files, yuzu_keys_dir, yuzu_keys_dir,
                                 "title.keys_autogenerated", TRUE, junk)
    IN  [dev_mode |-> use_dev, s128 |-> k4.s128, s256 |-> k4.s256]

InfoText ==
    "# This file is autogenerated by Yuzu\n"
    \o "# It serves to store keys that were automatically generated from the normal keys\n"
    \o "# If you are experiencing issues involving keys, it may help to delete this file\n"

AutogeneratedName(dev, title_key) ==
    IF title_key THEN "title.keys_autogenerated"
    ELSE IF dev THEN "dev.keys_autogenerated" ELSE "prod.keys_autogenerated"

\* WriteKeyToFile that writes the info text on every call: a variant of the
\* code, used to show that C19's formula depends on the test of line 214.
WriteKeyToFileAlwaysInfo(w, dev, title_key, keyname, key, flushed, junk) ==
    LET path == yuzu_keys_dir \o DIR_SEP \o AutogeneratedName(dev, title_key)
        before == w.fs[path].data
        after == before \o InfoText \o "\n" \o keyname \o " = " \o HexArrayToString(key)
        seen == [w.fs EXCEPT ![path] = File(IF flushed THEN after ELSE before)]
        km == AttemptLoadKeyFile([s128 |-> w.s128, s256 |-> w.s256], seen,
                                 yuzu_keys_dir, yuzu_keys_dir,
                                 AutogeneratedName(dev, title_key), title_key, junk)
    IN  [s128 |-> km.s128, s256 |-> km.s256, fs |-> [w.fs EXCEPT ![path] = File(after)]]

\* WriteKeyToFile whose reload starts from an empty store: a variant of the
\* code, used to show that C15's formula depends on the reload adding to the
\* store it finds.
WriteKeyToFileFresh(w, dev, title_key, keyname, key, flushed, junk) ==
    LET path == yuzu_keys_dir \o DIR_SEP \o AutogeneratedName(dev, title_key)
        add_info_text == ~Exists(w.fs, path)
        before == w.fs[path].data
        after == before \o (IF add_info_text THEN InfoText ELSE "")
                        \o "\n" \o keyname \o " = " \o HexArrayToString(key)
        seen == [w.fs EXCEPT ![path] = File(IF flushed THEN after ELSE before)]
        km == AttemptLoadKeyFile([s128 |-> NoKeys, s256 |-> NoKeys], seen,
                                 yuzu_keys_dir, yuzu_keys_dir,
                                 AutogeneratedName(dev, title_key), title_key, junk)
    IN  [s128 |-> km.s128, s256 |-> km.s256, fs |-> [w.fs EXCEPT ![path] = File(after)]]

\* A world w is [s128, s256, fs].  The keys directory is writable, so the
\* append-mode open succeeds.  The stream is still open when the file is
\* loaded again: the load sees the appended text when `flushed`, and the text
\* as it was before otherwise; the stream's destructor writes it in any case.
WriteKeyToFile(w, dev, title_key, keyname, key, flushed, junk) ==
    LET path == yuzu_keys_dir \o DIR_SEP \o AutogeneratedName(dev, title_key)
        add_info_text == ~Exists(w.fs, path)
        before == w.fs[path].data
        after == before \o (IF add_info_text THEN InfoText ELSE "")
                        \o "\n" \o keyname \o " = " \o HexArrayToString(key)
        seen == [w.fs EXCEPT ![path] = File(IF flushed THEN after ELSE before)]
        km == AttemptLoadKeyFile([s128 |-> w.s128, s256 |-> w.s256], seen,
                                 yuzu_keys_dir, yuzu_keys_dir,
                                 AutogeneratedName(dev, title_key), title_key, junk)
    IN  [s128 |-> km.s128, s256 |-> km.s256, fs |-> [w.fs EXCEPT ![path] = File(after)]]

\* The rights identifier with field1 first: a variant of the code, used to
\* show that C7's formula depends on the order of the halves.
RightsIdSwapped(field1, field2) == field1 \o field2

\* std::memcpy(rights_id.data(), &field2, 8);
\* std::memcpy(rights_id.data() + 8, &field1, 8)
RightsId(field1, field2) == field2 \o field1

\* SetKey that leaves the insertion to the reload of the key file: a variant
\* of the code, used to show that C11's formula depends on the insertion that
\* ends SetKey.
SetKey128NoInsert(w, dev, id, key, field1, field2, flushed, junk) ==
    LET index == KeyIndex(id, field1, field2) IN
    IF index \in DOMAIN w.s128 THEN w
    ELSE
        LET w1 == IF id = "Titlekey"
                  THEN WriteKeyToFile(w, dev, TRUE, HexArrayToString(RightsId(field1, field2)),
                                      key, flushed, junk)
                  ELSE w
        IN  IF TableHasIndex(s128_file_id, index)
            THEN WriteKeyToFile(w1, dev, FALSE, TableNameOf(s128_file_id, index), key,
                                flushed, junk)
            ELSE w1

\* SetKey without the test for an occupied slot: a variant of the code, used
\* to show that C2's formula depends on that test.
SetKey128Unguarded(w, dev, id, key, field1, field2, flushed, junk) ==
    LET index == KeyIndex(id, field1, field2)
        w1 == IF id = "Titlekey"
              THEN WriteKeyToFile(w, dev, TRUE, HexArrayToString(RightsId(field1, field2)),
                                  key, flushed, junk)
              ELSE w
        w2 == IF TableHasIndex(s128_file_id, index)
              THEN WriteKeyToFile(w1, dev, FALSE, TableNameOf(s128_file_id, index), key,
                                  flushed, junk)
              ELSE w1
    IN  [w2 EXCEPT !.s128 = Put(@, index, key)]

SetKey128(w, dev, id, key, field1, field2, flushed, junk) ==
    LET index == KeyIndex(id, field1, field2) IN
    IF index \in DOMAIN w.s128 THEN w
    ELSE
        LET rights_id == RightsId(field1, field2)
            w1 == IF id = "Titlekey"
                  THEN WriteKeyToFile(w, dev, TRUE, HexArrayToString(rights_id), key,
                                      flushed, junk)
                  ELSE w
            w2 == IF TableHasIndex(s128_file_id, index)
                  THEN WriteKeyToFile(w1, dev, FALSE, TableNameOf(s128_file_id, index), key,
                                      flushed, junk)
                  ELSE w1
        IN  [w2 EXCEPT !.s128 = Put(@, index, key)]

\* SetKey for 256-bit keys that stores in memory only: a variant of the code,
\* used to show that C20's formula depends on the write-back of named keys.
SetKey256MemoryOnly(w, dev, id, key, field1, field2, flushed, junk) ==
    LET index == KeyIndex(id, field1, field2) IN
    IF index \in DOMAIN w.s256 THEN w
    ELSE [w EXCEPT !.s256 = Put(@, index, key)]

SetKey256(w, dev, id, key, field1, field2, flushed, junk) ==
    LET index == KeyIndex(id, field1, field2) IN
    IF index \in DOMAIN w.s256 THEN w
    ELSE
        LET w1 == IF TableHasIndex(s256_file_id, index)
                  THEN WriteKeyToFile(w, dev, FALSE, TableNameOf(s256_file_id, index), key,
                                      flushed, junk)
                  ELSE w
        IN  [w1 EXCEPT !.s256 = Put(@, index, key)]

\* KeyFileExists that never looks for dev.keys: a variant of the code, used to
\* show that C10's formula depends on the key-set mode.
KeyFileExistsProdOnly(files, use_dev, title) ==
    IF title
    THEN \/ Exists(files, hactool_keys_dir \o DIR_SEP \o "title.keys")
         \/ Exists(files, yuzu_keys_dir \o DIR_SEP \o "title.keys")
    ELSE \/ Exists(files, hactool_keys_dir \o DIR_SEP \o "prod.keys")
         \/ Exists(files, yuzu_keys_dir \o DIR_SEP \o "prod.keys")

KeyFileExists(files, use_dev, title) ==
    IF title
    THEN \/ Exists(files, hactool_keys_dir \o DIR_SEP \o "title.keys")
         \/ Exists(files, yuzu_keys_dir \o DIR_SEP \o "title.keys")
    ELSE IF use_dev
    THEN \/ Exists(files, hactool_keys_dir \o DIR_SEP \o "dev.keys")
         \/ Exists(files, yuzu_keys_dir \o DIR_SEP \o "dev.keys")
    ELSE \/ Exists(files, hactool_keys_dir \o DIR_SEP \o "prod.keys")
         \/ Exists(files, yuzu_keys_dir \o DIR_SEP \o "prod.keys")

----------------------------------------------------------------------------
\* Key derivation.

\* A value an AES stage handles is Raw(bytes) or the result of a Transcode.
Raw(bytes) == [raw |-> bytes]

\* AESCipher<Key128>(key, Mode::ECB).Transcode(data, size, out, Op::Decrypt):
\* the cipher is opaque, so the result is the term naming the key and the data.
Transcode(key, data) == [key |-> key, data |-> data]

\* GenerateKeyEncryptionKey with source and kek_seed in each other's place: a
\* variant of the code, used to show that C17's formula depends on the role
\* of each argument.
GenerateKeyEncryptionKeySwapped(source, master, kek_seed, key_seed) ==
    LET out1 == Transcode(Raw(master), Raw(source))
        out2 == Transcode(out1, Raw(kek_seed))
    IN  IF key_seed # Zero128 THEN Transcode(out2, Raw(key_seed)) ELSE out2

GenerateKeyEncryptionKey(source, master, kek_seed, key_seed) ==
    LET out1 == Transcode(Raw(master), Raw(kek_seed))
        out2 == Transcode(out1, Raw(source))
    IN  IF key_seed # Zero128 THEN Transcode(out2, Raw(key_seed)) ELSE out2

\* sizeof(std::array<u8, 0x10>): the marker and each window of the scan
MarkerSize == 16

\* boost::optional<Key128>
None == [found |-> FALSE, seed |-> Zero128]
Some(seed) == [found |-> TRUE, seed |-> seed]

\* IOFile::ReadBytes(buffer, length) after Seek(offset, SEEK_SET): the bytes
\* of the file from offset on, at most length of them.
ReadBytes(data, offset, length) ==
    SubSeq(data, offset + 1, IF offset + length < Len(data) THEN offset + length ELSE Len(data))

\* The buffer after ReadBytes into a zero-initialized array of `size` bytes.
FillArray(size, got) == [i \in 1..size |-> IF i <= Len(got) THEN got[i] ELSE 0]

\* The scan with a stride of one window instead of one byte: a variant of the
\* code, used to show that C12's formula depends on the stride.
RECURSIVE ScanFromAligned(_, _, _)
ScanFromAligned(data, private_seed, offset) ==
    IF ~(offset + MarkerSize < Len(data)) THEN offset
    ELSE IF FillArray(MarkerSize, ReadBytes(data, offset, MarkerSize)) = private_seed
    THEN offset
    ELSE ScanFromAligned(data, private_seed, offset + MarkerSize)

\* for (; offset + 0x10 < size; ++offset) { read 0x10 bytes; if equal break; }
RECURSIVE ScanFrom(_, _, _)
ScanFrom(data, private_seed, offset) ==
    IF ~(offset + MarkerSize < Len(data)) THEN offset
    ELSE IF FillArray(MarkerSize, ReadBytes(data, offset, MarkerSize)) = private_seed
    THEN offset
    ELSE ScanFrom(data, private_seed, offset + 1)

\* save_43 and sd_private are [exists, data], data a sequence of bytes.
DeriveSDSeed(save_43, sd_private) ==
    IF ~save_43.exists THEN None
    ELSE IF ~sd_private.exists THEN None
    ELSE IF Len(ReadBytes(sd_private.data, 0, MarkerSize)) # MarkerSize THEN None
    ELSE
        LET private_seed == ReadBytes(sd_private.data, 0, MarkerSize)
            offset == ScanFrom(save_43.data, private_seed, 0)
        IN  IF offset + MarkerSize >= Len(save_43.data) THEN None
            ELSE Some(FillArray(Size128,
                                ReadBytes(save_43.data, offset + MarkerSize, Size128)))

\* a ^ b on bytes
RECURSIVE Xor(_, _)
Xor(a, b) ==
    IF a = 0 /\ b = 0 THEN 0
    ELSE (((a % 2) + (b % 2)) % 2) + (2 * Xor(a \div 2, b \div 2))

\* CombineSeed that stops after the first 16 bytes of the source: a variant of
\* the code, used to show that C18's formula depends on the seed being applied
\* to the whole 32-byte source.
CombineSeedFirstHalf(source, sd_seed) ==
    [i \in 1..Len(source) |->
        IF i <= Size128 THEN Xor(source[i], sd_seed[i]) ELSE source[i]]

\* source[i] ^= sd_seed[i & 0xF] for every i (indices here start at 1)
CombineSeed(source, sd_seed) ==
    [i \in 1..Len(source) |-> Xor(source[i], sd_seed[((i - 1) % Size128) + 1])]

SDKEKIndex == KeyIndex("Source", SourceKeyType_SDKEK, U64(0))
AESKEKGenerationIndex == KeyIndex("Source", SourceKeyType_AESKEKGeneration, U64(0))
AESKeyGenerationIndex == KeyIndex("Source", SourceKeyType_AESKeyGeneration, U64(0))
Master00Index == KeyIndex("Master", U64(0), U64(0))
SDSeedIndex == KeyIndex("SDSeed", U64(0), U64(0))
SDSaveIndex == KeyIndex("SDKeySource", SDKeyType_Save, U64(0))
SDNCAIndex == KeyIndex("SDKeySource", SDKeyType_NCA, U64(0))

\* The result is [status, sd_keys, checked, read]: the status returned, the
\* output array afterwards, and the indices the call handed to HasKey and to
\* GetKey before it returned.
DeriveSDKeys(sd_keys, s128, s256) ==
    LET Result(status, out, checked, read) ==
            [status |-> status, sd_keys |-> out, checked |-> checked, read |-> read]
        sd_kek_source == GetKey128(s128, "Source", SourceKeyType_SDKEK, U64(0))
        aes_kek_gen == GetKey128(s128, "Source", SourceKeyType_AESKEKGeneration, U64(0))
        aes_key_gen == GetKey128(s128, "Source", SourceKeyType_AESKeyGeneration, U64(0))
        master_00 == GetKey128(s128, "Master", U64(0), U64(0))
        sd_kek == GenerateKeyEncryptionKey(sd_kek_source, master_00, aes_kek_gen, aes_key_gen)
        sd_seed == GetKey128(s128, "SDSeed", U64(0), U64(0))
        save_source == CombineSeed(GetKey256(s256, "SDKeySource", SDKeyType_Save, U64(0)),
                                   sd_seed)
        nca_source == CombineSeed(GetKey256(s256, "SDKeySource", SDKeyType_NCA, U64(0)),
                                  sd_seed)
        sources == {SDKEKIndex, AESKEKGenerationIndex, AESKeyGenerationIndex}
    IN  IF ~HasKey128(s128, "Source", SourceKeyType_SDKEK, U64(0))
        THEN Result("ErrorMissingSDKEKSource", sd_keys, {SDKEKIndex}, {})
        ELSE IF ~HasKey128(s128, "Source", SourceKeyType_AESKEKGeneration, U64(0))
        THEN Result("ErrorMissingAESKEKGenerationSource", sd_keys,
                    {SDKEKIndex, AESKEKGenerationIndex}, {})
        ELSE IF ~HasKey128(s128, "Source", SourceKeyType_AESKeyGeneration, U64(0))
        THEN Result("ErrorMissingAESKeyGenerationSource", sd_keys, sources, {})
        ELSE IF ~HasKey128(s128, "SDSeed", U64(0), U64(0))
        THEN Result("ErrorMissingSDSeed", sd_keys, sources \cup {SDSeedIndex},
                    sources \cup {Master00Index})
        ELSE IF ~HasKey256(s256, "SDKeySource", SDKeyType_Save, U64(0))
        THEN Result("ErrorMissingSDSaveKeySource", sd_keys,
                    sources \cup {SDSeedIndex, SDSaveIndex},
                    sources \cup {Master00Index, SDSeedIndex})
        ELSE IF ~HasKey256(s256, "SDKeySource", SDKeyType_NCA, U64(0))
        THEN Result("ErrorMissingSDNCAKeySource", sd_keys,
                    sources \cup {SDSeedIndex, SDSaveIndex, SDNCAIndex},
                    sources \cup {Master00Index, SDSeedIndex})
        ELSE Result("Success",
                    <<Transcode(sd_kek, Raw(save_source)), Transcode(sd_kek, Raw(nca_source))>>,
                    sources \cup {SDSeedIndex, SDSaveIndex, SDNCAIndex},
                    sources \cup {Master00Index, SDSeedIndex, SDSaveIndex, SDNCAIndex})

\* What KeyManager::DeriveSDSeedLazy leaves: a world, and whether it scanned.
Scanned(w, scanned) == w @@ [scanned |-> scanned]

\* if (res != boost::none) SetKey(S128KeyType::SDSeed, res.get()), for the
\* result res of DeriveSDSeed.
StoreSeed(w, dev, res, flushed, junk) ==
    IF res # None
    THEN Scanned(SetKey128(w, dev, "SDSeed", res.seed, U64(0), U64(0), flushed, junk), TRUE)
    ELSE Scanned(w, TRUE)

\* DeriveSDSeedLazy without the HasKey test: a variant of the code, used to
\* show that C14's formula depends on that test.
DeriveSDSeedLazyUnguarded(w, dev, save_43, sd_private, flushed, junk) ==
    StoreSeed(w, dev, DeriveSDSeed(save_43, sd_private), flushed, junk)

\* KeyManager::DeriveSDSeedLazy on the world w: the world after the call, and
\* whether DeriveSDSeed was called.
DeriveSDSeedLazy(w, dev, save_43, sd_private, flushed, junk) ==
    IF HasKey128(w.s128, "SDSeed", U64(0), U64(0)) THEN Scanned(w, FALSE)
    ELSE StoreSeed(w, dev, DeriveSDSeed(save_43, sd_private), flushed, junk)

----------------------------------------------------------------------------
\* The XCI loader.

\* Load that sets is_loaded before it looks at what the NCA loader returned:
\* a variant of the code, used to show that C21's formula depends on the
\* order of lines 70-74.
LoadMarksEarly(loaded, status, program_nca_status, nca_is_null, files, use_dev, nca_result) ==
    LET Return(result, now_loaded, called) ==
            [result |-> result, is_loaded |-> now_loaded, nca_loader_called |-> called]
    IN  IF loaded THEN Return("ErrorAlreadyLoaded", loaded, FALSE)
        ELSE IF status # "Success" THEN Return(status, loaded, FALSE)
        ELSE IF program_nca_status # "Success" THEN Return(program_nca_status, loaded, FALSE)
        ELSE IF nca_is_null /\ ~KeyFileExists(files, use_dev, FALSE)
        THEN Return("ErrorMissingProductionKeyFile", loaded, FALSE)
        ELSE Return(nca_result, TRUE, TRUE)

\* AppLoader_XCI::Load.  status, program_nca_status and nca_is_null are what
\* xci->GetStatus(), xci->GetProgramNCAStatus() and xci->GetProgramNCA() ==
\* nullptr give; nca_result is what nca_loader->Load(process) returns if it is
\* called.  The result is [result, is_loaded, nca_loader_called].
Load(loaded, status, program_nca_status, nca_is_null, files, use_dev, nca_result) ==
    LET Return(result, now_loaded, called) ==
            [result |-> result, is_loaded |-> now_loaded, nca_loader_called |-> called]
    IN  IF loaded THEN Return("ErrorAlreadyLoaded", loaded, FALSE)
        ELSE IF status # "Success" THEN Return(status, loaded, FALSE)
        ELSE IF program_nca_status # "Success" THEN Return(program_nca_status, loaded, FALSE)
        ELSE IF nca_is_null /\ ~KeyFileExists(files, use_dev, FALSE)
        THEN Return("ErrorMissingProductionKeyFile", loaded, FALSE)
        ELSE IF nca_result # "Success" THEN Return(nca_result, loaded, TRUE)
        ELSE Return("Success", TRUE, TRUE)

----------------------------------------------------------------------------
\* Bounds of the model and the inputs drawn from them.

\* Calls that may change the key store, per keyring.
MaxCalls == 2
\* Calls that store a named key, per keyring, when every name is tried.
MaxNameCalls == 1
\* Bytes before the marker in a save blob.
MaxPad == 2
\* Bytes after the marker in a save blob.
MaxTail == 17

Key128Of(b) == [i \in 1..Size128 |-> (b + i) % 256]
Key256Of(b) == [i \in 1..Size256 |-> (b + i) % 256]
KeyA == Key128Of(0)
KeyB == Key128Of(160)
KeyC == Key128Of(77)
KeyA256 == Key256Of(0)
KeyB256 == Key256Of(192)

\* The byte an ill-formed hex string is decoded to, everywhere in one load.
JunkFill == {0, 238}

\* Halves of rights identifiers.
RightsLow == <<1, 2, 3, 4, 5, 6, 7, 8>>
RightsHigh == <<254, 220, 186, 152, 118, 84, 50, 16>>

\* Hand-written key files: names in either case, hex digits in either case,
\* spaces or none around '=', names no table has, lines without '='.
BaseA ==
    "master_key_00 = 0102030405060708090A0B0C0D0E0F10\n"
    \o "Sd_Card_Kek_Source=a1a2a3a4a5a6a7a8a9aaabacadaeafb0\n"
    \o "; a comment\n"
    \o "unknown_key = 00\n"
    \o "header_key = " \o HexArrayToString(KeyA256) \o "\n"
BaseB ==
    "master_key_00 = " \o HexArrayToString(KeyB) \o "\n"
    \o "titlekek_00 = " \o HexArrayToString(KeyC)
\* The second and fourth lines carry ill-formed values.
BaseBad ==
    "titlekek_00 = " \o HexArrayToString(KeyA) \o "\n"
    \o "titlekek_01 = 0102zz\n"
    \o "titlekek_02 = " \o HexArrayToString(KeyB) \o "\n"
    \o "header_key = " \o HexArrayToString(KeyA) \o "\n"
    \o "titlekek_03 = " \o HexArrayToString(KeyC) \o "\n"

AutoA ==
    InfoText
    \o "\nmaster_key_00 = " \o HexArrayToString(KeyB)
    \o "\nsd_card_nca_key_source = " \o HexArrayToString(KeyB256)
TitleA ==
    HexArrayToString(RightsLow \o RightsHigh) \o " = " \o HexArrayToString(KeyA) \o "\n"
TitleB ==
    HexArrayToString(RightsHigh \o RightsLow) \o " = " \o HexArrayToString(KeyC) \o "\n"
TitleAuto ==
    InfoText
    \o "\n" \o HexArrayToString(RightsLow \o RightsHigh) \o " = " \o HexArrayToString(KeyB)

\* An autogenerated file that was edited by hand and carries an ill-formed value.
AutoBad ==
    InfoText
    \o "\ntitlekek_01 = 0102zz"
    \o "\ntitlekek_02 = " \o HexArrayToString(KeyB)

\* [primary, fallback, auto]: the base key file in the keys directory and in
\* the fallback directory, and the autogenerated file.
Files3(primary, fallback, auto) == [primary |-> primary, fallback |-> fallback, auto |-> auto]

NoFiles == Files3(NoFile, NoFile, NoFile)

GeneralScenarios ==
    { NoFiles,
      Files3(File(BaseA), NoFile, NoFile),
      Files3(File(BaseA), File(BaseB), File(AutoA)),
      Files3(NoFile, File(BaseB), File(AutoA)),
      Files3(File(BaseBad), NoFile, NoFile),
      Files3(NoFile, NoFile, File(AutoBad)) }

TitleScenarios ==
    { NoFiles,
      Files3(File(TitleA), NoFile, File(TitleAuto)),
      Files3(NoFile, File(TitleB), NoFile) }

Marker == Key128Of(200)
SeedBlob == <<7, 7, 7>> \o Marker \o KeyC \o <<9>>

\* What a run starts from: the key-set mode, the key files, the save file
\* the seed is scanned from, and the byte ill-formed hex decodes to.
Scenario(dev, general, title, save, junk) ==
    [dev |-> dev, general |-> general, title |-> title, save |-> save, junk |-> junk]

\* Every combination of the file scenarios, for loading.
LoadScenarios ==
    { Scenario(dev, general, title, NoFile, junk) :
        dev \in BOOLEAN, general \in GeneralScenarios, title \in TitleScenarios,
        junk \in JunkFill }

\* Fewer of them, for runs that go on to store keys.
CallScenarios ==
    { Scenario(FALSE, NoFiles, NoFiles, File(SeedBlob), 0),
      Scenario(TRUE, NoFiles, NoFiles, NoFile, 0),
      Scenario(FALSE, Files3(File(BaseA), File(BaseB), File(AutoA)),
               Files3(File(TitleA), NoFile, File(TitleAuto)), File(SeedBlob), 0),
      Scenario(TRUE, Files3(NoFile, File(BaseB), File(AutoA)),
               Files3(NoFile, File(TitleB), NoFile), File(SeedBlob), 0),
      Scenario(FALSE, Files3(File(BaseBad), NoFile, NoFile), NoFiles, NoFile, 238),
      Scenario(FALSE, Files3(NoFile, NoFile, File(AutoBad)), NoFiles, NoFile, 238),
      Scenario(TRUE, Files3(NoFile, NoFile, File(AutoBad)), NoFiles, File(SeedBlob), 0) }

BaseName(dev) == IF dev THEN "dev.keys" ELSE "prod.keys"

Paths ==
    {dir \o DIR_SEP \o name :
        dir \in {yuzu_keys_dir, hactool_keys_dir},
        name \in {"prod.keys", "dev.keys", "title.keys"}}
    \cup {yuzu_keys_dir \o DIR_SEP \o AutogeneratedName(dev, title) :
            dev \in BOOLEAN, title \in BOOLEAN}

\* The file system in which the general files of mode `dev` and the title
\* files are as the two scenarios say, and every other file is absent.
FileSystem(dev, general, title) ==
    [path \in Paths |->
        IF path = yuzu_keys_dir \o DIR_SEP \o BaseName(dev) THEN general.primary
        ELSE IF path = hactool_keys_dir \o DIR_SEP \o BaseName(dev) THEN general.fallback
        ELSE IF path = yuzu_keys_dir \o DIR_SEP \o AutogeneratedName(dev, FALSE) THEN general.auto
        ELSE IF path = yuzu_keys_dir \o DIR_SEP \o "title.keys" THEN title.primary
        ELSE IF path = hactool_keys_dir \o DIR_SEP \o "title.keys" THEN title.fallback
        ELSE IF path = yuzu_keys_dir \o DIR_SEP \o AutogeneratedName(dev, TRUE) THEN title.auto
        ELSE NoFile]

----------------------------------------------------------------------------
\* State.

VARIABLES
    use_dev_keys,   \* Settings::values.use_dev_keys
    fs,             \* the key files
    save_43,        \* NAND /system/save/8000000000000043
    sd_private,     \* SDMC /Nintendo/Contents/private
    hex_junk,       \* the byte ill-formed hex decodes to in this run
    constructed,    \* the keyring has been constructed
    dev_mode,       \* KeyManager::dev_mode
    s128_keys,      \* KeyManager::s128_keys
    s256_keys,      \* KeyManager::s256_keys
    calls,          \* store-changing calls made so far
    sd_keys,        \* the caller's array handed to DeriveSDKeys
    xci,            \* what the XCI object reports: [status, program_nca_status, nca_is_null]
    is_loaded,      \* AppLoader_XCI::is_loaded
    callers,        \* the SetKey calls two threads are in the middle of
    last            \* the last call made and what it returned

vars ==
    <<use_dev_keys, fs, save_43, sd_private, hex_junk, constructed, dev_mode, s128_keys,
      s256_keys, calls, sd_keys, xci, is_loaded, callers, last>>

env_vars == <<use_dev_keys, save_43, sd_private, hex_junk>>
keyring_vars == <<constructed, dev_mode, s128_keys, s256_keys, calls>>
loader_vars == <<xci, is_loaded>>

World == [s128 |-> s128_keys, s256 |-> s256_keys, fs |-> fs]

NoKeyring ==
    /\ constructed = FALSE
    /\ dev_mode = FALSE
    /\ s128_keys = NoKeys
    /\ s256_keys = NoKeys
    /\ calls = 0

NoLoader ==
    /\ xci = [status |-> "Success", program_nca_status |-> "Success", nca_is_null |-> FALSE]
    /\ is_loaded = FALSE

NoOutput == <<Raw(Zero256), Raw(Zero256)>>

\* Two threads that may each call SetKey on the same keyring.
Callers == {1, 2}

\* Where a caller is in SetKey, and what its call holds: add_info_text and
\* the text its stream has taken and not yet written to the file.  `passed`
\* records that the caller found the slot free, and `inserted` the order in
\* which the callers completed their insert.
NoCallers ==
    [of |-> [c \in Callers |->
                [pc |-> "idle", add_info_text |-> FALSE, pending |-> "", passed |-> FALSE]],
     inserted |-> <<>>]

\* Before the keyring is constructed: some key files on disk.
InitFiles(scenarios) ==
    /\ \E sc \in scenarios :
        /\ use_dev_keys = sc.dev
        /\ fs = FileSystem(sc.dev, sc.general, sc.title)
        /\ save_43 = sc.save
        /\ hex_junk = sc.junk
    /\ sd_private = File(Marker)
    /\ NoKeyring
    /\ NoLoader
    /\ sd_keys = NoOutput
    /\ callers = NoCallers
    /\ last = [op |-> "none"]

Init == InitFiles(CallScenarios)

InitLoad == InitFiles(LoadScenarios)

----------------------------------------------------------------------------
\* Calls on the keyring.

SetIndices128 ==
    { Master00Index,
      KeyIndex("Titlekey", RightsHigh, RightsLow),
      KeyIndex("Titlekey", RightsLow, U64(0)),
      KeyIndex("Master", U64(5), U64(0)) }

SetIndices256 == { SDSaveIndex, KeyIndex("Header", U64(1), U64(0)) }

QueryIndices128 == SetIndices128 \cup {SDSeedIndex, KeyIndex("Titlekek", U64(1), U64(0))}

QueryIndices256 == SetIndices256 \cup {KeyIndex("Header", U64(0), U64(0))}

\* KeyManager::KeyManager()
Construct ==
    /\ ~constructed
    /\ LET km == KeyManager(fs, use_dev_keys, hex_junk) IN
        /\ dev_mode' = km.dev_mode
        /\ s128_keys' = km.s128
        /\ s256_keys' = km.s256
    /\ last' = [op |-> "KeyManager"]
    /\ constructed' = TRUE
    /\ UNCHANGED <<env_vars, callers, fs, calls, sd_keys, loader_vars>>

Install(w) ==
    /\ s128_keys' = w.s128
    /\ s256_keys' = w.s256
    /\ fs' = w.fs

\* KeyManager::SetKey(S128KeyType id, Key128 key, u64 field1, u64 field2)
SetKey128Call(indices, keys, limit) ==
    /\ constructed
    /\ calls < limit
    /\ \E index \in indices, key \in keys, flushed \in BOOLEAN :
        /\ Install(SetKey128(World, dev_mode, index.type, key, index.field1, index.field2,
                             flushed, hex_junk))
        /\ last' = [op |-> "SetKey128", index |-> index, key |-> key]
    /\ calls' = calls + 1
    /\ UNCHANGED <<env_vars, callers, constructed, dev_mode, sd_keys, loader_vars>>

\* KeyManager::SetKey(S256KeyType id, Key256 key, u64 field1, u64 field2)
SetKey256Call(indices, keys, limit) ==
    /\ constructed
    /\ calls < limit
    /\ \E index \in indices, key \in keys, flushed \in BOOLEAN :
        /\ Install(SetKey256(World, dev_mode, index.type, key, index.field1, index.field2,
                             flushed, hex_junk))
        /\ last' = [op |-> "SetKey256", index |-> index, key |-> key]
    /\ calls' = calls + 1
    /\ UNCHANGED <<env_vars, callers, constructed, dev_mode, sd_keys, loader_vars>>

\* HasKey and GetKey (const) on a 128-bit index
GetKey128Call ==
    /\ constructed
    /\ \E index \in QueryIndices128 :
        last' = [op |-> "GetKey128", index |-> index,
                 has |-> HasKey128(s128_keys, index.type, index.field1, index.field2),
                 key |-> GetKey128(s128_keys, index.type, index.field1, index.field2)]
    /\ UNCHANGED <<env_vars, callers, fs, keyring_vars, sd_keys, loader_vars>>

\* HasKey and GetKey (const) on a 256-bit index
GetKey256Call ==
    /\ constructed
    /\ \E index \in QueryIndices256 :
        last' = [op |-> "GetKey256", index |-> index,
                 has |-> HasKey256(s256_keys, index.type, index.field1, index.field2),
                 key |-> GetKey256(s256_keys, index.type, index.field1, index.field2)]
    /\ UNCHANGED <<env_vars, callers, fs, keyring_vars, sd_keys, loader_vars>>

\* KeyManager::DeriveSDSeedLazy()
DeriveSDSeedLazyCall ==
    /\ constructed
    /\ calls < MaxCalls
    /\ \E flushed \in BOOLEAN :
        \E r \in {DeriveSDSeedLazy(World, dev_mode, save_43, sd_private, flushed, hex_junk)} :
        /\ Install(r)
        /\ last' = [op |-> "DeriveSDSeedLazy", scanned |-> r.scanned]
    /\ calls' = calls + 1
    /\ UNCHANGED <<env_vars, callers, constructed, dev_mode, sd_keys, loader_vars>>

\* A keyring is constructed and keys are stored in it.
Next ==
    \/ Construct
    \/ SetKey128Call(SetIndices128, {KeyA, KeyB}, MaxCalls)
    \/ SetKey256Call(SetIndices256, {KeyA256, KeyB256}, MaxCalls)
    \/ DeriveSDSeedLazyCall

Spec == Init /\ [][Next]_vars

\* A keyring is constructed from the key files and queried.
NextLoad ==
    \/ Construct
    \/ GetKey128Call
    \/ GetKey256Call

SpecLoad == InitLoad /\ [][NextLoad]_vars

----------------------------------------------------------------------------
\* Write-back of every named key.

NamedIndices128 == {s128_file_id[i].index : i \in 1..Len(s128_file_id)}
NamedIndices256 == {s256_file_id[i].index : i \in 1..Len(s256_file_id)}

NameScenarios ==
    { Scenario(FALSE, Files3(File(BaseA), NoFile, File(AutoA)), NoFiles, NoFile, 0),
      Scenario(FALSE, NoFiles, NoFiles, NoFile, 0),
      Scenario(TRUE, NoFiles, NoFiles, NoFile, 0) }

InitNames == InitFiles(NameScenarios)

NextNames ==
    \/ Construct
    \/ SetKey128Call(NamedIndices128, {KeyB}, MaxNameCalls)
    \/ SetKey256Call(NamedIndices256, {KeyB256}, MaxNameCalls)

SpecNames == InitNames /\ [][NextNames]_vars

----------------------------------------------------------------------------
\* Storage-key derivation on a key store.

Operands128 ==
    {SDKEKIndex, AESKEKGenerationIndex, AESKeyGenerationIndex, Master00Index, SDSeedIndex}
Operands256 == {SDSaveIndex, SDNCAIndex}

\* The value each operand has when present; the key seed may be all-zero.
OperandValue128(index, zero_key_seed) ==
    IF index = SDKEKIndex THEN KeyA
    ELSE IF index = AESKEKGenerationIndex THEN KeyB
    ELSE IF index = AESKeyGenerationIndex THEN (IF zero_key_seed THEN Zero128 ELSE KeyC)
    ELSE IF index = Master00Index THEN Key128Of(33)
    ELSE Key128Of(129)

OperandValue256(index) == IF index = SDSaveIndex THEN KeyA256 ELSE KeyB256

InitSD ==
    /\ use_dev_keys = FALSE
    /\ fs = FileSystem(FALSE, NoFiles, NoFiles)
    /\ save_43 = NoFile
    /\ sd_private = NoFile
    /\ hex_junk = 0
    /\ constructed = TRUE
    /\ dev_mode = FALSE
    /\ \E present \in SUBSET Operands128, zero_key_seed \in BOOLEAN :
            s128_keys = [index \in present |-> OperandValue128(index, zero_key_seed)]
    /\ \E present \in SUBSET Operands256 :
            s256_keys = [index \in present |-> OperandValue256(index)]
    /\ calls = 0
    /\ sd_keys \in {NoOutput, <<Raw(KeyA256), Raw(KeyB256)>>}
    /\ NoLoader
    /\ callers = NoCallers
    /\ last = [op |-> "none"]

\* DeriveSDKeys(sd_keys, keys): keys is const, sd_keys is written
DeriveSDKeysCall ==
    /\ constructed
    /\ LET r == DeriveSDKeys(sd_keys, s128_keys, s256_keys) IN
        /\ sd_keys' = r.sd_keys
        /\ last' = [op |-> "DeriveSDKeys", status |-> r.status, checked |-> r.checked,
                    read |-> r.read]
    /\ UNCHANGED <<env_vars, callers, fs, keyring_vars, loader_vars>>

NextSD == DeriveSDKeysCall

SpecSD == InitSD /\ [][NextSD]_vars

----------------------------------------------------------------------------
\* The seed scan on save blobs.

NotMarker == [Marker EXCEPT ![MarkerSize] = (@ + 1) % 256]

\* The first t bytes that follow the body: a seed, or the marker once more.
TailBytes(kind, t) ==
    SubSeq(IF kind = "seed" THEN KeyC \o Marker \o KeyA ELSE Marker \o KeyC \o KeyA, 1, t)

SaveBlobs ==
    { [i \in 1..pad |-> fill] \o body \o TailBytes(kind, t) :
        fill \in {7, Marker[1]}, pad \in 0..MaxPad, body \in {Marker, NotMarker, <<>>},
        kind \in {"seed", "marker"}, t \in 0..MaxTail }

PrivateFiles ==
    { NoFile, File(<<>>), File(SubSeq(Marker, 1, MarkerSize - 1)), File(Marker),
      File(Marker \o <<1, 2>>) }

InitSeed ==
    /\ use_dev_keys = FALSE
    /\ fs = FileSystem(FALSE, NoFiles, NoFiles)
    /\ save_43 \in {NoFile} \cup {File(blob) : blob \in SaveBlobs}
    /\ sd_private \in PrivateFiles
    /\ hex_junk = 0
    /\ NoKeyring
    /\ NoLoader
    /\ sd_keys = NoOutput
    /\ callers = NoCallers
    /\ last = [op |-> "none"]

\* DeriveSDSeed()
DeriveSDSeedCall ==
    /\ last' = [op |-> "DeriveSDSeed", result |-> DeriveSDSeed(save_43, sd_private)]
    /\ UNCHANGED <<env_vars, callers, fs, keyring_vars, sd_keys, loader_vars>>

NextSeed == DeriveSDSeedCall

SpecSeed == InitSeed /\ [][NextSeed]_vars

----------------------------------------------------------------------------
\* Loading an XCI.

XCIStatuses == {"Success", "ErrorBadXCIHeader"}
ProgramNCAStatuses == {"Success", "ErrorXCIMissingProgramNCA"}
NCALoadResults == {"Success", "ErrorMissingHeaderKey"}

BasePaths ==
    {dir \o DIR_SEP \o name :
        dir \in {yuzu_keys_dir, hactool_keys_dir}, name \in {"prod.keys", "dev.keys"}}

InitXCI ==
    /\ use_dev_keys \in BOOLEAN
    /\ \E present \in SUBSET BasePaths :
            fs = [path \in Paths |-> IF path \in present THEN File("") ELSE NoFile]
    /\ save_43 = NoFile
    /\ sd_private = NoFile
    /\ hex_junk = 0
    /\ NoKeyring
    /\ xci \in [status : XCIStatuses, program_nca_status : ProgramNCAStatuses,
                nca_is_null : BOOLEAN]
    /\ is_loaded = FALSE
    /\ sd_keys = NoOutput
    /\ callers = NoCallers
    /\ last = [op |-> "none"]

\* AppLoader_XCI::Load(process)
LoadCall ==
    /\ \E nca_result \in NCALoadResults :
        LET r == Load(is_loaded, xci.status, xci.program_nca_status, xci.nca_is_null, fs,
                      use_dev_keys, nca_result)
        IN  /\ is_loaded' = r.is_loaded
            /\ last' = [op |-> "Load", result |-> r.result,
                        nca_loader_called |-> r.nca_loader_called]
    /\ UNCHANGED <<env_vars, callers, fs, keyring_vars, sd_keys, xci>>

NextXCI == LoadCall

SpecXCI == InitXCI /\ [][NextXCI]_vars

----------------------------------------------------------------------------
\* Two threads call SetKey on one keyring with nothing to serialize them.
\* Each call advances one statement at a time; the statements of the two
\* calls interleave in any order.  (The calls race on the maps, so the build
\* may do more than this; every behaviour here is one it can show.)

\* Both calls name master_key_00, each with its own value.
RaceIndex == Master00Index
CallerKey(c) == IF c = 1 THEN KeyA ELSE KeyB

RaceScenarios ==
    { Scenario(FALSE, NoFiles, NoFiles, NoFile, 0),
      Scenario(TRUE, Files3(NoFile, NoFile, File(AutoBad)), NoFiles, NoFile, 0) }

InitRace == InitFiles(RaceScenarios)

RacePath == yuzu_keys_dir \o DIR_SEP \o AutogeneratedName(dev_mode, FALSE)

At(c, pc) == constructed /\ callers.of[c].pc = pc

\* The file with the text a stream still holds written to its end.
Flush(files, path, pending) == [files EXCEPT ![path] = File(@.data \o pending)]

\* if (s128_keys.find({id, field1, field2}) != s128_keys.end()) return;
SetKeyCheck(c) ==
    /\ At(c, "idle")
    /\ callers' = [callers EXCEPT
                        !.of[c].pc = IF RaceIndex \in DOMAIN s128_keys THEN "done" ELSE "open",
                        !.of[c].passed = RaceIndex \notin DOMAIN s128_keys]
    /\ last' = [op |-> "SetKey128 check", caller |-> c]
    /\ UNCHANGED <<env_vars, fs, keyring_vars, sd_keys, loader_vars>>

\* WriteKeyToFile: add_info_text is taken and the stream is opened for append,
\* which creates the file.
SetKeyOpen(c) ==
    /\ At(c, "open")
    /\ callers' = [callers EXCEPT !.of[c].pc = "write",
                                  !.of[c].add_info_text = ~Exists(fs, RacePath)]
    /\ fs' = [fs EXCEPT ![RacePath] = File(@.data)]
    /\ last' = [op |-> "SetKey128 open", caller |-> c]
    /\ UNCHANGED <<env_vars, keyring_vars, sd_keys, loader_vars>>

\* WriteKeyToFile: the info text and the entry go to the stream.
SetKeyWrite(c) ==
    /\ At(c, "write")
    /\ callers' = [callers EXCEPT
                        !.of[c].pc = "reload",
                        !.of[c].pending =
                            (IF callers.of[c].add_info_text THEN InfoText ELSE "")
                            \o "\n" \o TableNameOf(s128_file_id, RaceIndex) \o " = "
                            \o HexArrayToString(CallerKey(c))]
    /\ last' = [op |-> "SetKey128 write", caller |-> c]
    /\ UNCHANGED <<env_vars, fs, keyring_vars, sd_keys, loader_vars>>

\* WriteKeyToFile: AttemptLoadKeyFile on the file, which holds what the
\* streams have written to it by now; this caller's stream may or may not
\* have done so.
SetKeyReload(c) ==
    /\ At(c, "reload")
    /\ \E flushed \in BOOLEAN :
        /\ fs' = IF flushed THEN Flush(fs, RacePath, callers.of[c].pending) ELSE fs
        /\ callers' = [callers EXCEPT
                            !.of[c].pc = "close",
                            !.of[c].pending = IF flushed THEN "" ELSE @]
    /\ s128_keys' = AttemptLoadKeyFile([s128 |-> s128_keys, s256 |-> s256_keys], fs',
                                       yuzu_keys_dir, yuzu_keys_dir,
                                       AutogeneratedName(dev_mode, FALSE), FALSE, hex_junk).s128
    /\ s256_keys' = AttemptLoadKeyFile([s128 |-> s128_keys, s256 |-> s256_keys], fs',
                                       yuzu_keys_dir, yuzu_keys_dir,
                                       AutogeneratedName(dev_mode, FALSE), FALSE, hex_junk).s256
    /\ last' = [op |-> "SetKey128 reload", caller |-> c]
    /\ UNCHANGED <<env_vars, constructed, dev_mode, calls, sd_keys, loader_vars>>

\* WriteKeyToFile returns: the stream is destroyed and writes what it holds.
SetKeyClose(c) ==
    /\ At(c, "close")
    /\ fs' = Flush(fs, RacePath, callers.of[c].pending)
    /\ callers' = [callers EXCEPT !.of[c].pc = "insert", !.of[c].pending = ""]
    /\ last' = [op |-> "SetKey128 close", caller |-> c]
    /\ UNCHANGED <<env_vars, keyring_vars, sd_keys, loader_vars>>

\* s128_keys[{id, field1, field2}] = key;
SetKeyInsert(c) ==
    /\ At(c, "insert")
    /\ s128_keys' = Put(s128_keys, RaceIndex, CallerKey(c))
    /\ callers' = [callers EXCEPT !.of[c].pc = "done", !.inserted = Append(@, c)]
    /\ last' = [op |-> "SetKey128 insert", caller |-> c]
    /\ UNCHANGED <<env_vars, fs, constructed, dev_mode, s256_keys, calls, sd_keys, loader_vars>>

NextRace ==
    \/ Construct
    \/ \E c \in Callers : SetKeyCheck(c)
    \/ \E c \in Callers : SetKeyOpen(c)
    \/ \E c \in Callers : SetKeyWrite(c)
    \/ \E c \in Callers : SetKeyReload(c)
    \/ \E c \in Callers : SetKeyClose(c)
    \/ \E c \in Callers : SetKeyInsert(c)

SpecRace == InitRace /\ [][NextRace]_vars

----------------------------------------------------------------------------
\* GenerateKeyEncryptionKey on its own.

KEKInputs == {Zero128, KeyA, KeyB, KeyC}

InitKEK == InitFiles({Scenario(FALSE, NoFiles, NoFiles, NoFile, 0)})

\* GenerateKeyEncryptionKey(source, master, kek_seed, key_seed)
GenerateKeyEncryptionKeyCall ==
    /\ \E source \in KEKInputs, master \in KEKInputs, kek_seed \in KEKInputs,
          key_seed \in KEKInputs :
        last' = [op |-> "GenerateKeyEncryptionKey", source |-> source, master |-> master,
                 kek_seed |-> kek_seed, key_seed |-> key_seed,
                 result |-> GenerateKeyEncryptionKey(source, master, kek_seed, key_seed)]
    /\ UNCHANGED <<env_vars, callers, fs, keyring_vars, sd_keys, loader_vars>>

NextKEK == GenerateKeyEncryptionKeyCall

SpecKEK == InitKEK /\ [][NextKEK]_vars

----------------------------------------------------------------------------
\* What the properties below speak of.

EmptyKeyring == [s128 |-> NoKeys, s256 |-> NoKeys]

\* What a keyring holds that has loaded only the file at path.
LoadedAlone(files, path, title) == LoadFromFile(EmptyKeyring, files, path, title, hex_junk)

\* The copy of a base key file the constructor reads: the one in the keys
\* directory if there is one, else the one in the fallback directory.
BasePath(name) ==
    IF Exists(fs, yuzu_keys_dir \o DIR_SEP \o name) THEN yuzu_keys_dir \o DIR_SEP \o name
    ELSE hactool_keys_dir \o DIR_SEP \o name

AutoPath(title) == yuzu_keys_dir \o DIR_SEP \o AutogeneratedName(dev_mode, title)

\* The files the constructor reads, each with its mode.
LoadedFiles ==
    { f \in { <<BasePath(BaseName(dev_mode)), FALSE>>, <<AutoPath(FALSE), FALSE>>,
              <<BasePath("title.keys"), TRUE>>, <<AutoPath(TRUE), TRUE>> } :
        Exists(fs, f[1]) }

Pieces(line) == GetLineAll(line, "=")
NamePiece(line) == RemoveSpaces(Pieces(line)[1])
ValuePiece(line) == RemoveSpaces(Pieces(line)[2])

\* The line is `name = value` with a value of 2 * size hex digits, and its name
\* is that of `index`: a table name in a general file, the 32 hex digits of the
\* rights identifier in a title file.
WellFormedFor(line, title, index, size) ==
    /\ Len(Pieces(line)) = 2
    /\ IsHexOfSize(size, ValuePiece(line))
    /\ IF title
       THEN /\ size = Size128
            /\ IsHexOfSize(Size128, NamePiece(line))
            /\ index.type = "Titlekey"
            /\ HexArrayToString(index.field2 \o index.field1)
                    = HexArrayToString(HexStringToArray(Size128, NamePiece(line), 0))
       ELSE LET table == IF size = Size128 THEN s128_file_id ELSE s256_file_id IN
            /\ TableHas(table, ToLower(NamePiece(line)))
            /\ TableAt(table, ToLower(NamePiece(line))) = index

\* Some file the constructor reads has a well-formed line for index.
HasWellFormedLine(index, size) ==
    \E f \in LoadedFiles :
        \E line \in {GetLineAll(fs[f[1]].data, "\n")[i] :
                        i \in 1..Len(GetLineAll(fs[f[1]].data, "\n"))} :
            WellFormedFor(line, f[2], index, size)

JustConstructed == constructed /\ calls = 0

----------------------------------------------------------------------------
\* C1: after construction, an index that the base key file and the matching
\* autogenerated file both give, with different values, holds the value of the
\* base file.  (The code does not do this: see C1_AutogeneratedWins.)
HandProvidedWins(base, auto, title) ==
    LET b == LoadedAlone(fs, base, title)
        a == LoadedAlone(fs, auto, title)
    IN  /\ \A index \in (DOMAIN b.s128) \cap (DOMAIN a.s128) :
                b.s128[index] # a.s128[index] => s128_keys[index] = b.s128[index]
        /\ \A index \in (DOMAIN b.s256) \cap (DOMAIN a.s256) :
                b.s256[index] # a.s256[index] => s256_keys[index] = b.s256[index]

C1_BaseKeysWin ==
    JustConstructed =>
        /\ HandProvidedWins(BasePath(BaseName(dev_mode)), AutoPath(FALSE), FALSE)
        /\ HandProvidedWins(BasePath("title.keys"), AutoPath(TRUE), TRUE)

\* C2: SetKey on an occupied index, of either width, changes neither store
\* and no key file.
C2_OccupiedStep ==
    /\ (last'.op = "SetKey128" /\ calls' = calls + 1 /\ last'.index \in DOMAIN s128_keys)
            => UNCHANGED <<s128_keys, s256_keys, fs>>
    /\ (last'.op = "SetKey256" /\ calls' = calls + 1 /\ last'.index \in DOMAIN s256_keys)
            => UNCHANGED <<s128_keys, s256_keys, fs>>

C2_SetKeyOccupiedIsNoOp == [][C2_OccupiedStep]_vars

\* A SetKey with a value other than the one the occupied slot holds was made.
C2_Witness ==
    /\ last.op = "SetKey128"
    /\ last.index \in DOMAIN s128_keys
    /\ s128_keys[last.index] # last.key

\* C3: every index DeriveSDKeys hands to GetKey it has handed to HasKey
\* before, and when it returns Success every key it read was in the store.
\* (The code reads master_key_00 unchecked.)
C3_ReadsAreChecked ==
    last.op = "DeriveSDKeys" =>
        /\ last.read \subseteq last.checked
        /\ last.status = "Success" =>
                last.read \subseteq (DOMAIN s128_keys) \cup (DOMAIN s256_keys)

\* C4: when the first occurrence of the marker in the save blob is followed
\* by fewer than 16 bytes, DeriveSDSeed returns no seed.  (The code returns
\* one when 1 to 15 bytes follow.)
Occurrences(data, marker) ==
    {o \in 0..(Len(data) - MarkerSize) : SubSeq(data, o + 1, o + MarkerSize) = marker}

FirstOccurrence(data, marker) ==
    CHOOSE o \in Occurrences(data, marker) : \A q \in Occurrences(data, marker) : o <= q

BytesAfterFirstMarker ==
    Len(save_43.data)
        - (FirstOccurrence(save_43.data, SubSeq(sd_private.data, 1, MarkerSize)) + MarkerSize)

MarkerFound ==
    /\ save_43.exists
    /\ sd_private.exists
    /\ Len(sd_private.data) >= MarkerSize
    /\ Occurrences(save_43.data, SubSeq(sd_private.data, 1, MarkerSize)) # {}

C4_ShortSeedRejected ==
    (last.op = "DeriveSDSeed" /\ MarkerFound /\ BytesAfterFirstMarker < Size128)
        => ~last.result.found

\* C5: DeriveSDKeys returns the error of the first absent operand in the
\* order SD-KEK source, AES-KEK-generation source, AES-key-generation source,
\* SD seed, SD save key source, SD NCA key source, and Success exactly when
\* all six are present.
RequiredOperands ==
    << [index |-> SDKEKIndex, wide |-> FALSE, error |-> "ErrorMissingSDKEKSource"],
       [index |-> AESKEKGenerationIndex, wide |-> FALSE,
        error |-> "ErrorMissingAESKEKGenerationSource"],
       [index |-> AESKeyGenerationIndex, wide |-> FALSE,
        error |-> "ErrorMissingAESKeyGenerationSource"],
       [index |-> SDSeedIndex, wide |-> FALSE, error |-> "ErrorMissingSDSeed"],
       [index |-> SDSaveIndex, wide |-> TRUE, error |-> "ErrorMissingSDSaveKeySource"],
       [index |-> SDNCAIndex, wide |-> TRUE, error |-> "ErrorMissingSDNCAKeySource"] >>

OperandPresent(i) ==
    IF RequiredOperands[i].wide THEN RequiredOperands[i].index \in DOMAIN s256_keys
    ELSE RequiredOperands[i].index \in DOMAIN s128_keys

AbsentOperands == {i \in 1..Len(RequiredOperands) : ~OperandPresent(i)}

C5_FirstAbsentOperandNamed ==
    last.op = "DeriveSDKeys" =>
        /\ last.status = "Success" <=> AbsentOperands = {}
        /\ \A i \in AbsentOperands :
                (\A j \in AbsentOperands : i <= j) => last.status = RequiredOperands[i].error

\* Exactly one operand, the SD seed, was absent, and its error came back.
C5_Witness ==
    /\ last.op = "DeriveSDKeys"
    /\ AbsentOperands = {4}
    /\ last.status = "ErrorMissingSDSeed"

\* C6: for an index not in the store GetKey returns the all-zero key of its
\* width and HasKey false; for an index in the store HasKey returns true and
\* GetKey the stored value; neither call changes a store.
C6_QueryStep ==
    /\ last'.op = "GetKey128" =>
            /\ last'.has <=> last'.index \in DOMAIN s128_keys
            /\ last'.key = IF last'.index \in DOMAIN s128_keys
                           THEN s128_keys[last'.index] ELSE [i \in 1..16 |-> 0]
            /\ UNCHANGED <<s128_keys, s256_keys, fs>>
    /\ last'.op = "GetKey256" =>
            /\ last'.has <=> last'.index \in DOMAIN s256_keys
            /\ last'.key = IF last'.index \in DOMAIN s256_keys
                           THEN s256_keys[last'.index] ELSE [i \in 1..32 |-> 0]
            /\ UNCHANGED <<s128_keys, s256_keys, fs>>

C6_GetKeyHasKey == [][C6_QueryStep]_vars

\* An absent index of a store that is not empty was queried.
C6_Witness ==
    /\ last.op = "GetKey128"
    /\ s128_keys # NoKeys
    /\ last.index \notin DOMAIN s128_keys
    /\ ~last.has
    /\ last.key = Zero128

\* C7: SetKey(Titlekey, k, field1, field2) on a free slot appends to the title
\* autogenerated file text that LoadFromFile in title-key mode reads as
\* exactly one entry: index (Titlekey, field1, field2), value k.
AppendedTo(path) == SubSeq(fs'[path].data, Len(fs[path].data) + 1, Len(fs'[path].data))

OnlyAppendedTo(path) ==
    /\ fs'[path].exists
    /\ SubSeq(fs'[path].data, 1, Len(fs[path].data)) = fs[path].data
    /\ \A other \in Paths \ {path} : fs'[other] = fs[other]

C7_TitleStep ==
    (/\ last'.op = "SetKey128"
     /\ calls' = calls + 1
     /\ last'.index.type = "Titlekey"
     /\ last'.index \notin DOMAIN s128_keys)
        => /\ OnlyAppendedTo(AutoPath(TRUE))
           /\ LoadLines(EmptyKeyring, GetLineAll(AppendedTo(AutoPath(TRUE)), "\n"), 1, TRUE,
                        hex_junk)
                = [s128 |-> Put(NoKeys, last'.index, last'.key), s256 |-> NoKeys]

C7_TitleKeyRoundTrip == [][C7_TitleStep]_vars

\* A title key whose two halves differ, and which no key file held at the
\* start, was stored and is read back from the title autogenerated file.
C7_Witness ==
    /\ last.op = "SetKey128"
    /\ last.index = KeyIndex("Titlekey", RightsLow, U64(0))
    /\ KeyIndex("Titlekey", RightsLow, U64(0)) \in DOMAIN LoadedAlone(fs, AutoPath(TRUE), TRUE).s128
    /\ LoadedAlone(fs, AutoPath(TRUE), TRUE).s128[last.index] = last.key
    /\ s128_keys[last.index] = last.key

\* C8: SetKey of a named key, of either width, on a free slot appends to the
\* autogenerated file of the keyring's mode text that reads as exactly that
\* entry, and a fresh keyring that loads only that file has the key.
OnlyFile(files, path) == [p \in Paths |-> IF p = path THEN files[p] ELSE NoFile]

C8_NamedStep ==
    /\ (/\ last'.op = "SetKey128"
        /\ calls' = calls + 1
        /\ TableHasIndex(s128_file_id, last'.index)
        /\ last'.index \notin DOMAIN s128_keys)
            => LET fresh == KeyManager(OnlyFile(fs', AutoPath(FALSE)), dev_mode, hex_junk) IN
               /\ OnlyAppendedTo(AutoPath(FALSE))
               /\ LoadLines(EmptyKeyring, GetLineAll(AppendedTo(AutoPath(FALSE)), "\n"), 1,
                            FALSE, hex_junk)
                    = [s128 |-> Put(NoKeys, last'.index, last'.key), s256 |-> NoKeys]
               /\ last'.index \in DOMAIN fresh.s128
               /\ fresh.s128[last'.index] = last'.key
    /\ (/\ last'.op = "SetKey256"
        /\ calls' = calls + 1
        /\ TableHasIndex(s256_file_id, last'.index)
        /\ last'.index \notin DOMAIN s256_keys)
            => LET fresh == KeyManager(OnlyFile(fs', AutoPath(FALSE)), dev_mode, hex_junk) IN
               /\ OnlyAppendedTo(AutoPath(FALSE))
               /\ LoadLines(EmptyKeyring, GetLineAll(AppendedTo(AutoPath(FALSE)), "\n"), 1,
                            FALSE, hex_junk)
                    = [s128 |-> NoKeys, s256 |-> Put(NoKeys, last'.index, last'.key)]
               /\ last'.index \in DOMAIN fresh.s256
               /\ fresh.s256[last'.index] = last'.key

C8_NamedKeyRoundTrip == [][C8_NamedStep]_vars

\* key_area_key_system_03 was stored by a keyring that found no key file, and
\* a fresh keyring reads it back from the autogenerated file.
C8_Witness ==
    /\ last.op = "SetKey128"
    /\ last.index = KeyIndex("KeyArea", U64(3), KeyAreaKeyType_System)
    /\ Exists(fs, AutoPath(FALSE))
    /\ KeyManager(OnlyFile(fs, AutoPath(FALSE)), dev_mode, hex_junk).s128
            = Put(NoKeys, last.index, last.key)

\* C9: a line with a recognized name and an ill-formed value inserts nothing,
\* and the well-formed lines of the same file are loaded: after construction
\* the store holds exactly the indices some well-formed line of a file read
\* gives.  (The code inserts an entry for the ill-formed line too.)
C9_BadLinesSkipped ==
    JustConstructed =>
        /\ \A index \in DOMAIN s128_keys : HasWellFormedLine(index, Size128)
        /\ \A index \in DOMAIN s256_keys : HasWellFormedLine(index, Size256)
        /\ \A index \in NamedIndices128 :
                HasWellFormedLine(index, Size128) => index \in DOMAIN s128_keys
        /\ \A index \in NamedIndices256 :
                HasWellFormedLine(index, Size256) => index \in DOMAIN s256_keys

\* C10 as stated: once the XCI status and program-NCA status checks have
\* passed, Load with no base key file returns ErrorMissingProductionKeyFile
\* and does not call the NCA loader, whether or not the program NCA is null.
BaseKeyFilePresent ==
    \/ fs[hactool_keys_dir \o DIR_SEP \o BaseName(use_dev_keys)].exists
    \/ fs[yuzu_keys_dir \o DIR_SEP \o BaseName(use_dev_keys)].exists

ChecksPassed ==
    /\ last.op = "Load"
    /\ last.result # "ErrorAlreadyLoaded"
    /\ xci.status = "Success"
    /\ xci.program_nca_status = "Success"

C10_NoKeyFileNoLoad ==
    (ChecksPassed /\ ~BaseKeyFilePresent)
        => (last.result = "ErrorMissingProductionKeyFile" /\ ~last.nca_loader_called)

\* C10, amended: once those checks have passed, Load returns
\* ErrorMissingProductionKeyFile, without calling the NCA loader, exactly when
\* the program NCA is null and no base key file exists; in every other case
\* it calls the NCA loader.
C10_NoKeyFileAndNullNCA ==
    ChecksPassed =>
        /\ last.result = "ErrorMissingProductionKeyFile"
                <=> (xci.nca_is_null /\ ~BaseKeyFilePresent)
        /\ last.nca_loader_called <=> ~(xci.nca_is_null /\ ~BaseKeyFilePresent)

\* Load was refused for a null program NCA and no base key file.
C10_Witness ==
    /\ ChecksPassed
    /\ xci.nca_is_null
    /\ ~BaseKeyFilePresent
    /\ last.result = "ErrorMissingProductionKeyFile"
    /\ ~last.nca_loader_called

\* C11: after construction and after every SetKey, each entry the title
\* autogenerated file and the mode's autogenerated file record is in the
\* store with the value on disk.
StoreHolds(km) ==
    /\ \A index \in DOMAIN km.s128 :
            index \in DOMAIN s128_keys /\ s128_keys[index] = km.s128[index]
    /\ \A index \in DOMAIN km.s256 :
            index \in DOMAIN s256_keys /\ s256_keys[index] = km.s256[index]

C11_StoreReflectsAutogenerated ==
    constructed =>
        /\ StoreHolds(LoadedAlone(fs, AutoPath(FALSE), FALSE))
        /\ StoreHolds(LoadedAlone(fs, AutoPath(TRUE), TRUE))

\* master_key_00 was written back by a keyring that had loaded no key file,
\* and is in the store as it is on disk.
C11_Witness ==
    /\ last.op = "SetKey128"
    /\ last.index = Master00Index
    /\ ~Exists(fs, BasePath(BaseName(dev_mode)))
    /\ last.index \in DOMAIN LoadedAlone(fs, AutoPath(FALSE), FALSE).s128
    /\ LoadedAlone(fs, AutoPath(FALSE), FALSE).s128[last.index] = last.key
    /\ s128_keys[last.index] = last.key

\* C12: when both files can be read and the marker occurs in the save blob
\* with at least 16 bytes after it, DeriveSDSeed returns the 16 bytes that
\* follow the first occurrence; when a file is missing, the marker file is
\* shorter than 16 bytes, or the marker does not occur, it returns no seed.
MarkerAbsent ==
    \/ ~save_43.exists
    \/ ~sd_private.exists
    \/ Len(sd_private.data) < MarkerSize
    \/ Occurrences(save_43.data, SubSeq(sd_private.data, 1, MarkerSize)) = {}

BytesAfter(data, offset) == SubSeq(data, offset + MarkerSize + 1, offset + MarkerSize + Size128)

C12_SeedFollowsFirstMarker ==
    last.op = "DeriveSDSeed" =>
        /\ (MarkerFound /\ BytesAfterFirstMarker >= Size128) =>
                /\ last.result.found
                /\ last.result.seed =
                        BytesAfter(save_43.data,
                                   FirstOccurrence(save_43.data,
                                                   SubSeq(sd_private.data, 1, MarkerSize)))
        /\ MarkerAbsent => ~last.result.found

\* The marker occurs twice, the first time after some padding, and the seed
\* returned is what follows the first occurrence.
C12_Witness ==
    /\ last.op = "DeriveSDSeed"
    /\ MarkerFound
    /\ Cardinality(Occurrences(save_43.data, SubSeq(sd_private.data, 1, MarkerSize))) = 2
    /\ FirstOccurrence(save_43.data, SubSeq(sd_private.data, 1, MarkerSize)) > 0
    /\ BytesAfterFirstMarker >= Size128
    /\ last.result.found
    /\ last.result.seed = SubSeq(sd_private.data, 1, MarkerSize)

\* C13: AttemptLoadKeyFile loads the primary copy alone when there is one,
\* the fallback copy when there is no primary copy, and nothing when there is
\* neither.  Seen on the store a constructor leaves, for the base key file
\* and for title.keys: `store` is the store of one width, p, f and a are what
\* the primary copy, the fallback copy and the autogenerated file hold.
OneCopyLoaded(store, ofKind, p, f, a, hasPrimary, hasFallback) ==
    /\ hasPrimary =>
            /\ \A index \in (DOMAIN p) \ (DOMAIN a) :
                    index \in DOMAIN store /\ store[index] = p[index]
            /\ \A index \in (DOMAIN f) \ ((DOMAIN p) \cup (DOMAIN a)) :
                    index \notin DOMAIN store
    /\ (~hasPrimary /\ hasFallback) =>
            \A index \in (DOMAIN f) \ (DOMAIN a) :
                index \in DOMAIN store /\ store[index] = f[index]
    /\ (~hasPrimary /\ ~hasFallback) => ofKind = DOMAIN a

OneCopyOf(name, title) ==
    LET primary == yuzu_keys_dir \o DIR_SEP \o name
        fallback == hactool_keys_dir \o DIR_SEP \o name
        p == LoadedAlone(fs, primary, title)
        f == LoadedAlone(fs, fallback, title)
        a == LoadedAlone(fs, AutoPath(title), title)
    IN  /\ OneCopyLoaded(s128_keys,
                         {index \in DOMAIN s128_keys : (index.type = "Titlekey") <=> title},
                         p.s128, f.s128, a.s128, Exists(fs, primary), Exists(fs, fallback))
        /\ OneCopyLoaded(s256_keys, IF title THEN {} ELSE DOMAIN s256_keys,
                         p.s256, f.s256, a.s256, Exists(fs, primary), Exists(fs, fallback))

C13_OneCopyPerCall ==
    JustConstructed => (OneCopyOf(BaseName(dev_mode), FALSE) /\ OneCopyOf("title.keys", TRUE))

\* Both copies of the base key file existed, the fallback copy named
\* titlekek_00, which no other file names, and the store does not have it.
C13_Witness ==
    /\ JustConstructed
    /\ Exists(fs, yuzu_keys_dir \o DIR_SEP \o BaseName(dev_mode))
    /\ KeyIndex("Titlekek", U64(0), U64(0))
            \in DOMAIN LoadedAlone(fs, hactool_keys_dir \o DIR_SEP \o BaseName(dev_mode),
                                   FALSE).s128
    /\ KeyIndex("Titlekek", U64(0), U64(0)) \notin DOMAIN s128_keys

\* C14: DeriveSDSeedLazy with the SD seed in the store scans nothing and
\* changes neither store nor any key file; with the seed absent and no seed
\* found it changes nothing either; with the seed absent and a seed found
\* it stores that seed, which every later call leaves as it is.
C14_LazyStep ==
    (last'.op = "DeriveSDSeedLazy" /\ calls' = calls + 1) =>
        /\ SDSeedIndex \in DOMAIN s128_keys =>
                (~last'.scanned /\ UNCHANGED <<s128_keys, s256_keys, fs>>)
        /\ (SDSeedIndex \notin DOMAIN s128_keys /\ ~DeriveSDSeed(save_43, sd_private).found) =>
                (last'.scanned /\ UNCHANGED <<s128_keys, s256_keys, fs>>)
        /\ (SDSeedIndex \notin DOMAIN s128_keys /\ DeriveSDSeed(save_43, sd_private).found) =>
                /\ last'.scanned
                /\ SDSeedIndex \in DOMAIN s128_keys'
                /\ s128_keys'[SDSeedIndex] = DeriveSDSeed(save_43, sd_private).seed

C14_LazyDerivationIdempotent == [][C14_LazyStep]_vars

\* A second call, after a first one that derived and stored the seed.
C14_Witness ==
    /\ last.op = "DeriveSDSeedLazy"
    /\ calls = 2
    /\ ~last.scanned
    /\ SDSeedIndex \in DOMAIN s128_keys
    /\ s128_keys[SDSeedIndex] = KeyC
    /\ SDSeedIndex \in DOMAIN LoadedAlone(fs, AutoPath(FALSE), FALSE).s128

\* C15: no step removes a key: every index of either store before a step
\* (a constructor, a SetKey with its reload, a DeriveSDSeedLazy) is an index
\* of that store after it.
C15_GrowStep ==
    /\ (DOMAIN s128_keys) \subseteq (DOMAIN s128_keys')
    /\ (DOMAIN s256_keys) \subseteq (DOMAIN s256_keys')

C15_KeysOnlyAccumulate == [][C15_GrowStep]_vars

\* A key that no key file records was stored first, a later SetKey wrote
\* another key back and reloaded the file, and the first key is still there.
C15_Witness ==
    /\ calls = 2
    /\ last.op = "SetKey256"
    /\ last.index = SDSaveIndex
    /\ SDSaveIndex \in DOMAIN LoadedAlone(fs, AutoPath(FALSE), FALSE).s256
    /\ KeyIndex("Master", U64(5), U64(0)) \in DOMAIN s128_keys
    /\ KeyIndex("Master", U64(5), U64(0))
            \notin DOMAIN LoadedAlone(fs, AutoPath(FALSE), FALSE).s128

\* C16: two SetKey calls on the same free named index, with different values
\* and nothing to serialize them, can both find the slot free.  Whenever they
\* do, both append an entry to the autogenerated file, and the store ends
\* with the value of the call that inserted last, not with the value of the
\* call that completed its insert first.
EntryText(key) == TableNameOf(s128_file_id, RaceIndex) \o " = " \o HexArrayToString(key)

\* The file holds the text somewhere (an entry has no newline after it, so
\* what another stream writes next may follow it on the same line).
HasText(path, line) ==
    \E i \in 0..(Len(fs[path].data) - Len(line)) :
        SubSeq(fs[path].data, i + 1, i + Len(line)) = line

AllDone == constructed /\ \A c \in Callers : callers.of[c].pc = "done"

BothPassed == \A c \in Callers : callers.of[c].passed

C16_RaceOutcome ==
    AllDone =>
        /\ \A c \in Callers :
                callers.of[c].passed <=> HasText(RacePath, EntryText(CallerKey(c)))
        /\ BothPassed =>
                /\ Len(callers.inserted) = 2
                /\ s128_keys[RaceIndex] = CallerKey(callers.inserted[2])
                /\ s128_keys[RaceIndex] # CallerKey(callers.inserted[1])

\* Both calls found the slot free, both appended, and the store does not
\* hold the value of the call that inserted first.
C16_Witness ==
    /\ AllDone
    /\ BothPassed
    /\ HasText(RacePath, EntryText(KeyA))
    /\ HasText(RacePath, EntryText(KeyB))
    /\ callers.inserted = <<1, 2>>
    /\ s128_keys[RaceIndex] = KeyB

\* C17: with D(k, x) the ECB decryption of x under k,
\* GenerateKeyEncryptionKey(source, master, kek_seed, key_seed) is
\* D(D(D(master, kek_seed), source), key_seed) when key_seed is not all-zero
\* and D(D(master, kek_seed), source) when it is.
D(k, x) == [key |-> k, data |-> x]

Bytes(b) == [raw |-> b]

AllZero(b) == \A i \in 1..Len(b) : b[i] = 0

C17_KeyEncryptionKey ==
    last.op = "GenerateKeyEncryptionKey" =>
        last.result =
            IF AllZero(last.key_seed)
            THEN D(D(Bytes(last.master), Bytes(last.kek_seed)), Bytes(last.source))
            ELSE D(D(D(Bytes(last.master), Bytes(last.kek_seed)), Bytes(last.source)),
                   Bytes(last.key_seed))

\* A call with four different arguments, none of them all-zero.
C17_Witness ==
    /\ last.op = "GenerateKeyEncryptionKey"
    /\ last.source = KeyA
    /\ last.master = KeyB
    /\ last.kek_seed = KeyC
    /\ last.key_seed = KeyA
    /\ last.result = D(D(D(Bytes(KeyB), Bytes(KeyC)), Bytes(KeyA)), Bytes(KeyA))

\* C18: when DeriveSDKeys returns Success, output[0] is the decryption under
\* sdKEK of the save key source with byte i XORed with seed[i mod 16] and
\* output[1] is the same for the NCA key source, where sdKEK is
\* GenerateKeyEncryptionKey(sd_kek_source, master_key_00,
\* aes_kek_generation_source, aes_key_generation_source); the store is not
\* modified, and on an error the output array is left untouched.
XorBit(a, b, k) == (2 ^ k) * ((((a \div (2 ^ k)) % 2) + ((b \div (2 ^ k)) % 2)) % 2)

XorByte(a, b) ==
    XorBit(a, b, 0) + XorBit(a, b, 1) + XorBit(a, b, 2) + XorBit(a, b, 3)
        + XorBit(a, b, 4) + XorBit(a, b, 5) + XorBit(a, b, 6) + XorBit(a, b, 7)

\* What a read of the store yields: the key, or all zeros for an absent one.
Stored128(index) == IF index \in DOMAIN s128_keys THEN s128_keys[index] ELSE [i \in 1..16 |-> 0]

SeededSource(index) ==
    [i \in 1..32 |-> XorByte(s256_keys[index][i], Stored128(SDSeedIndex)[((i - 1) % 16) + 1])]

SDKEKChain ==
    D(D(Bytes(Stored128(Master00Index)), Bytes(Stored128(AESKEKGenerationIndex))),
      Bytes(Stored128(SDKEKIndex)))

SDKEKOfStore ==
    IF AllZero(Stored128(AESKeyGenerationIndex))
    THEN SDKEKChain
    ELSE D(SDKEKChain, Bytes(Stored128(AESKeyGenerationIndex)))

C18_DeriveStep ==
    last'.op = "DeriveSDKeys" =>
        /\ s128_keys' = s128_keys
        /\ s256_keys' = s256_keys
        /\ last'.status = "Success" =>
                sd_keys' = <<D(SDKEKOfStore, Bytes(SeededSource(SDSaveIndex))),
                             D(SDKEKOfStore, Bytes(SeededSource(SDNCAIndex)))>>
        /\ last'.status # "Success" => sd_keys' = sd_keys

C18_StorageKeys == [][C18_DeriveStep]_vars

\* A successful derivation on a full store with a key seed that is not
\* all-zero: the save key comes first and byte 17 of its source met byte 1 of
\* the seed.
C18_Witness ==
    /\ last.op = "DeriveSDKeys"
    /\ last.status = "Success"
    /\ Master00Index \in DOMAIN s128_keys
    /\ ~AllZero(Stored128(AESKeyGenerationIndex))
    /\ sd_keys[1].key = SDKEKOfStore
    /\ sd_keys[1].data.raw[17] = XorByte(KeyA256[17], Stored128(SDSeedIndex)[1])
    /\ sd_keys[1].data.raw[17] # KeyA256[17]
    /\ sd_keys[2].data.raw = SeededSource(SDNCAIndex)

\* C19: across any sequence of write-backs the explanatory header of an
\* autogenerated file is emitted at most once per file, only by the write that
\* finds the file absent, and it precedes every entry of the file; a write to
\* a file that exists appends exactly one entry line and no header.
HeaderFirstLine == "# This file is autogenerated by Yuzu\n"

HeaderText ==
    HeaderFirstLine
    \o "# It serves to store keys that were automatically generated from the normal keys\n"
    \o "# If you are experiencing issues involving keys, it may help to delete this file\n"

AutogeneratedPaths ==
    { "keys/prod.keys_autogenerated", "keys/dev.keys_autogenerated",
      "keys/title.keys_autogenerated" }

\* Where the header starts in a text (offsets from 0).
HeaderStarts(text) ==
    { i \in 0..(Len(text) - Len(HeaderFirstLine)) :
        SubSeq(text, i + 1, i + Len(HeaderFirstLine)) = HeaderFirstLine }

\* A line break followed by one line "name = value" that is not a comment.
IsOneEntry(text) ==
    /\ Len(text) > 4
    /\ Char(text, 1) = "\n"
    /\ \A i \in 2..Len(text) : Char(text, i) \notin {"\n", "#"}
    /\ \E i \in 2..(Len(text) - 3) : SubSeq(text, i, i + 2) = " = "

C19_WriteStep ==
    \A path \in AutogeneratedPaths :
        fs'[path] # fs[path] =>
            /\ fs'[path].exists
            /\ SubSeq(fs'[path].data, 1, Len(fs[path].data)) = fs[path].data
            /\ IF fs[path].exists
               THEN IsOneEntry(AppendedTo(path))
               ELSE /\ SubSeq(AppendedTo(path), 1, Len(HeaderText)) = HeaderText
                    /\ IsOneEntry(SubSeq(AppendedTo(path), Len(HeaderText) + 1,
                                         Len(AppendedTo(path))))

C19_HeaderOnceAndFirst ==
    \A path \in AutogeneratedPaths : HeaderStarts(fs[path].data) \subseteq {0}

C19_HeaderOncePerFile == [][C19_WriteStep]_vars /\ []C19_HeaderOnceAndFirst

\* Two write-backs in a row to a file that was absent: the first wrote the
\* header and its entry, the second its entry only.
C19_Witness ==
    /\ calls = 2
    /\ last.op = "SetKey256"
    /\ ~dev_mode
    /\ fs["keys/prod.keys_autogenerated"].data =
            HeaderText \o "\nmaster_key_00 = " \o HexArrayToString(KeyA)
                \o "\nsd_card_save_key_source = " \o HexArrayToString(KeyA256)

\* C20: SetKey on a free index writes to a key file exactly when the index is
\* a Titlekey (the title autogenerated file) or has a name in its table (the
\* dev or prod autogenerated file, by the keyring's mode); for a free index
\* that is neither, SetKey stores the value in memory only and touches no
\* file, and no general-mode LoadFromFile ever populates such an index.
NamedIn(table) == { table[i].index : i \in DOMAIN table }

\* The step is a SetKey call on an index that had no value.
FreeSet128 ==
    /\ last'.op = "SetKey128"
    /\ calls' = calls + 1
    /\ last'.index \notin DOMAIN s128_keys

FreeSet256 ==
    /\ last'.op = "SetKey256"
    /\ calls' = calls + 1
    /\ last'.index \notin DOMAIN s256_keys

WroteOnlyTo(path) == OnlyAppendedTo(path) /\ fs'[path] # fs[path]

C20_SetStep ==
    /\ FreeSet128 =>
            IF last'.index.type = "Titlekey"
            THEN WroteOnlyTo("keys/title.keys_autogenerated")
            ELSE IF last'.index \in NamedIn(s128_file_id)
            THEN WroteOnlyTo(IF dev_mode THEN "keys/dev.keys_autogenerated"
                             ELSE "keys/prod.keys_autogenerated")
            ELSE /\ fs' = fs
                 /\ s256_keys' = s256_keys
                 /\ DOMAIN s128_keys' = (DOMAIN s128_keys) \cup {last'.index}
                 /\ s128_keys'[last'.index] = last'.key
                 /\ \A index \in DOMAIN s128_keys : s128_keys'[index] = s128_keys[index]
    /\ FreeSet256 =>
            IF last'.index \in NamedIn(s256_file_id)
            THEN WroteOnlyTo(IF dev_mode THEN "keys/dev.keys_autogenerated"
                             ELSE "keys/prod.keys_autogenerated")
            ELSE /\ fs' = fs
                 /\ s128_keys' = s128_keys
                 /\ DOMAIN s256_keys' = (DOMAIN s256_keys) \cup {last'.index}
                 /\ s256_keys'[last'.index] = last'.key
                 /\ \A index \in DOMAIN s256_keys : s256_keys'[index] = s256_keys[index]

\* Whatever file is loaded in general mode, only named indices come out.
C20_UnnamedNeverLoaded ==
    \A path \in Paths :
        /\ (DOMAIN LoadedAlone(fs, path, FALSE).s128) \subseteq NamedIn(s128_file_id)
        /\ (DOMAIN LoadedAlone(fs, path, FALSE).s256) \subseteq NamedIn(s256_file_id)

C20_PersistedIffNamed == [][C20_SetStep]_vars /\ []C20_UnnamedNeverLoaded

\* A master key of generation 5, which has no name, was stored as the first
\* call of a keyring that found no key file: it is in memory and there is
\* still no autogenerated file.
C20_Witness ==
    /\ calls = 1
    /\ last.op = "SetKey128"
    /\ last.index = KeyIndex("Master", U64(5), U64(0))
    /\ last.index \notin NamedIn(s128_file_id)
    /\ last.index \in DOMAIN s128_keys
    /\ s128_keys[last.index] = last.key
    /\ \A path \in AutogeneratedPaths : ~fs[path].exists

\* C21: Load succeeds at most once per loader: is_loaded becomes true only
\* when Load returns Success, every Load after a successful one returns
\* ErrorAlreadyLoaded without calling the NCA loader again, and a Load that
\* returns an error leaves is_loaded as it was - false for a loader that has
\* not loaded, so that a later Load may still be attempted.
C21_LoadStep ==
    last'.op = "Load" =>
        /\ (~is_loaded /\ is_loaded') => last'.result = "Success"
        /\ last'.result = "Success" => (~is_loaded /\ is_loaded' /\ last'.nca_loader_called)
        /\ is_loaded =>
                /\ last'.result = "ErrorAlreadyLoaded"
                /\ ~last'.nca_loader_called
                /\ is_loaded'
        /\ last'.result # "Success" => is_loaded' = is_loaded
        /\ (~is_loaded /\ last'.result # "Success") =>
                /\ ~is_loaded'
                /\ last'.result # "ErrorAlreadyLoaded"

C21_LoadsAtMostOnce == [][C21_LoadStep]_vars

\* A loader that has loaded was asked to load again: it refused without
\* calling the NCA loader and is still loaded.
C21_Witness ==
    /\ is_loaded
    /\ last.op = "Load"
    /\ last.result = "ErrorAlreadyLoaded"
    /\ ~last.nca_loader_called
    /\ xci.status = "Success"
    /\ xci.program_nca_status = "Success"

====
